---------------------------- MODULE Spec2Model ----------------------------
(***************************************************************************)
(* Model of the fusion LCOE back-casting core:                             *)
(*   backend/models/fuel_type.py, backend/models/subsystem.py,             *)
(*   backend/services/lcoe_calculator.py,                                  *)
(*   backend/services/constraint_solver.py, backend/routes/lcoe.py.        *)
(*                                                                         *)
(* Python floats are modelled as decimal floating-point numbers with       *)
(* Precision significant digits, rounded half-to-even after every          *)
(* operation, together with the special values +inf, -inf and nan.  A      *)
(* raised ZeroDivisionError is the value Err, which every later operation  *)
(* propagates, so a function's result is Err exactly when the Python       *)
(* function raises.                                                        *)
(***************************************************************************)
EXTENDS Integers, Sequences, FiniteSets, TLC

(***************************************************************************)
(* Decimal floating point.  A finite value is m * 10^e with m = 0, e = 0   *)
(* or 10^(Precision-1) <= |m| < 10^Precision.                              *)
(***************************************************************************)
Precision == 8

Pow10(n) == CASE n = 0 -> 1
              [] n = 1 -> 10
              [] n = 2 -> 100
              [] n = 3 -> 1000
              [] n = 4 -> 10000
              [] n = 5 -> 100000
              [] n = 6 -> 1000000
              [] n = 7 -> 10000000
              [] n = 8 -> 100000000
              [] n = 9 -> 1000000000

MantMin == Pow10(Precision - 1)
MantMax == Pow10(Precision)

Fin(m, e) == [k |-> "fin", m |-> m, e |-> e]
Zero == Fin(0, 0)
Inf == [k |-> "inf", m |-> 1, e |-> 0]
NegInf == [k |-> "inf", m |-> -1, e |-> 0]
NaN == [k |-> "nan", m |-> 0, e |-> 0]
Err == [k |-> "err", m |-> 0, e |-> 0]

IsErr(x) == x.k = "err"
IsNaN(x) == x.k = "nan"
IsFin(x) == x.k = "fin"
IsInf(x) == x.k = "inf"

IAbs(n) == IF n < 0 THEN -n ELSE n
Sgn(n) == IF n < 0 THEN -1 ELSE IF n > 0 THEN 1 ELSE 0

\* number of decimal digits of n > 0
Digits(n) == IF n < 10 THEN 1 ELSE IF n < 100 THEN 2 ELSE IF n < 1000 THEN 3
             ELSE IF n < 10000 THEN 4 ELSE IF n < 100000 THEN 5
             ELSE IF n < 1000000 THEN 6 ELSE IF n < 10000000 THEN 7
             ELSE IF n < 100000000 THEN 8 ELSE IF n < 1000000000 THEN 9 ELSE 10

\* q + 1 when the dropped part (twice it is r2, one unit is u) rounds up, half to even
RoundUp(q, r2, u) == IF r2 > u \/ (r2 = u /\ q % 2 = 1) THEN q + 1 ELSE q

\* the float nearest to sign * n * 10^e, n >= 0 an exact integer
Norm(sign, n, e) ==
    IF n = 0 THEN Zero
    ELSE LET d == Digits(n) IN
         IF d <= Precision
           THEN Fin(sign * n * Pow10(Precision - d), e - (Precision - d))
           ELSE LET k == d - Precision
                    u == Pow10(k)
                    q == RoundUp(n \div u, 2 * (n % u), u)
                IN  IF q = MantMax THEN Fin(sign * MantMin, e + k + 1)
                                   ELSE Fin(sign * q, e + k)

\* the float of the decimal literal n * 10^e (n any integer)
Dec(n, e) == Norm(Sgn(n), IAbs(n), e)
FromInt(n) == Dec(n, 0)

FNeg(x) == IF x.k = "fin" THEN Fin(-x.m, x.e)
           ELSE IF x.k = "inf" THEN [x EXCEPT !.m = -x.m] ELSE x

FAbs(x) == IF x.k \in {"fin", "inf"} THEN [x EXCEPT !.m = IAbs(x.m)] ELSE x

\* -1, 0, 1 as the finite or infinite x is below, equal to or above y
Cmp(x, y) ==
    IF x.k = "inf" /\ y.k = "inf" THEN Sgn(x.m - y.m)
    ELSE IF x.k = "inf" THEN x.m
    ELSE IF y.k = "inf" THEN -y.m
    ELSE IF Sgn(x.m) # Sgn(y.m) THEN Sgn(Sgn(x.m) - Sgn(y.m))
    ELSE IF x.m = 0 THEN 0
    ELSE IF x.e # y.e THEN (IF x.e > y.e THEN Sgn(x.m) ELSE -Sgn(x.m))
    ELSE Sgn(x.m - y.m)

Ordered(x, y) == x.k \in {"fin", "inf"} /\ y.k \in {"fin", "inf"}
FLt(x, y) == Ordered(x, y) /\ Cmp(x, y) < 0
FLe(x, y) == Ordered(x, y) /\ Cmp(x, y) <= 0
FGt(x, y) == Ordered(x, y) /\ Cmp(x, y) > 0
FGe(x, y) == Ordered(x, y) /\ Cmp(x, y) >= 0
FEq(x, y) == Ordered(x, y) /\ Cmp(x, y) = 0

\* |x| + |y| for finite nonzero x, y with |x| >= |y|, carrying the sign sg
AddMag(sg, x, y) ==
    LET A == IAbs(x.m)
        B == IAbs(y.m)
        d == x.e - y.e
    IN  IF d > Precision THEN Fin(sg * A, x.e)
        ELSE LET u == Pow10(d)
                 s == A + B \div u
                 r == B % u
             IN  IF s < MantMax
                   THEN Norm(sg, RoundUp(s, 2 * r, u), y.e + d)
                   ELSE Norm(sg, RoundUp(s \div 10, 2 * ((s % 10) * u + r), 10 * u),
                             y.e + d + 1)

\* |x| - |y| for finite nonzero x, y with |x| >= |y|, carrying the sign sg
SubMag(sg, x, y) ==
    LET A == IAbs(x.m)
        B == IAbs(y.m)
        d == x.e - y.e
    IN  IF d > Precision + 1 THEN Fin(sg * A, x.e)
        ELSE IF d <= 1 THEN Norm(sg, A * Pow10(d) - B, y.e)
        ELSE LET u == Pow10(d)
                 br == B % u
                 s == A - B \div u - (IF br > 0 THEN 1 ELSE 0)
                 r == IF br > 0 THEN u - br ELSE 0
             IN  IF s >= MantMin
                   THEN Norm(sg, RoundUp(s, 2 * r, u), y.e + d)
                   ELSE LET v == Pow10(d - 1)
                        IN  Norm(sg, RoundUp(s * 10 + r \div v, 2 * (r % v), v),
                                 y.e + d - 1)

MagGe(x, y) == x.e > y.e \/ (x.e = y.e /\ IAbs(x.m) >= IAbs(y.m))

FAdd(x, y) ==
    IF IsErr(x) \/ IsErr(y) THEN Err
    ELSE IF IsNaN(x) \/ IsNaN(y) THEN NaN
    ELSE IF IsInf(x) THEN (IF IsInf(y) /\ y.m # x.m THEN NaN ELSE x)
    ELSE IF IsInf(y) THEN y
    ELSE IF x.m = 0 THEN y
    ELSE IF y.m = 0 THEN x
    ELSE LET big == IF MagGe(x, y) THEN x ELSE y
             small == IF MagGe(x, y) THEN y ELSE x
         IN  IF Sgn(x.m) = Sgn(y.m) THEN AddMag(Sgn(big.m), big, small)
                                    ELSE SubMag(Sgn(big.m), big, small)

FSub(x, y) == FAdd(x, FNeg(y))

FMul(x, y) ==
    IF IsErr(x) \/ IsErr(y) THEN Err
    ELSE IF IsNaN(x) \/ IsNaN(y) THEN NaN
    ELSE IF IsInf(x) \/ IsInf(y)
      THEN (IF x.m = 0 \/ y.m = 0 THEN NaN
            ELSE IF Sgn(x.m) = Sgn(y.m) THEN Inf ELSE NegInf)
    ELSE IF x.m = 0 \/ y.m = 0 THEN Zero
    ELSE LET A == IAbs(x.m)
             B == IAbs(y.m)
             h == Pow10(4)
             a1 == A \div h
             a0 == A % h
             b1 == B \div h
             b0 == B % h
             mid == a1 * b0 + a0 * b1
             low == (mid % h) * h + a0 * b0
             H == a1 * b1 + mid \div h + low \div MantMax
             L == low % MantMax
             sg == Sgn(x.m) * Sgn(y.m)
         IN  IF H >= MantMin
               THEN Norm(sg, RoundUp(H, 2 * L, MantMax), x.e + y.e + Precision)
               ELSE Norm(sg, RoundUp(H * 10 + L \div MantMin, 2 * (L % MantMin), MantMin),
                         x.e + y.e + Precision - 1)

\* k more quotient digits of (q, r) / d by long division
RECURSIVE LongDiv(_, _, _, _)
LongDiv(q, r, d, k) ==
    IF k = 0 THEN <<q, r>>
    ELSE LongDiv(q * 10 + (r * 10) \div d, (r * 10) % d, d, k - 1)

\* Python's x / y: ZeroDivisionError when y is zero
FDiv(x, y) ==
    IF IsErr(x) \/ IsErr(y) THEN Err
    ELSE IF IsFin(y) /\ y.m = 0 THEN Err
    ELSE IF IsNaN(x) \/ IsNaN(y) THEN NaN
    ELSE IF IsInf(x) THEN (IF IsInf(y) THEN NaN
                           ELSE IF Sgn(x.m) = Sgn(y.m) THEN Inf ELSE NegInf)
    ELSE IF IsInf(y) THEN Zero
    ELSE IF x.m = 0 THEN Zero
    ELSE LET A == IAbs(x.m)
             B == IAbs(y.m)
             k == IF A >= B THEN Precision - 1 ELSE Precision
             qr == LongDiv(A \div B, A % B, B, k)
         IN  Norm(Sgn(x.m) * Sgn(y.m), RoundUp(qr[1], 2 * qr[2], B), x.e - y.e - k)

\* Python's x ** n for an int n >= 0, by square and multiply
RECURSIVE FPow(_, _)
FPow(x, n) ==
    IF n = 0 THEN FromInt(1)
    ELSE IF n = 1 THEN x
    ELSE LET hsq == FPow(FMul(x, x), n \div 2)
         IN  IF n % 2 = 0 THEN hsq ELSE FMul(hsq, x)

\* Python's round(x, nd): the nearest multiple of 10^-nd, half to even
FRound(x, nd) ==
    IF ~IsFin(x) \/ x.e >= -nd THEN x
    ELSE LET k == -nd - x.e
         IN  IF k > Precision THEN Zero
             ELSE Norm(Sgn(x.m),
                       RoundUp(IAbs(x.m) \div Pow10(k), 2 * (IAbs(x.m) % Pow10(k)), Pow10(k)),
                       -nd)


(***************************************************************************)
(* backend/models/fuel_type.py: the static constraint tables.              *)
(***************************************************************************)
FuelType == {"D-T", "D-He3", "p-B11"}
ConfinementType == {"MCF", "ICF"}

FUEL_CONSTRAINTS ==
    [f \in FuelType |->
        CASE f = "D-T" ->
               [required_subsystems |-> {"22.5", "23"},
                disabled_subsystems |-> {"22.1.9", "22.6"},
                cf_modifier |-> Dec(95, -2),
                regulatory_modifier |-> Dec(120, -2)]
          [] f = "D-He3" ->
               [required_subsystems |-> {"22.6", "23"},
                disabled_subsystems |-> {"22.5"},
                cf_modifier |-> Dec(98, -2),
                regulatory_modifier |-> Dec(110, -2)]
          [] f = "p-B11" ->
               [required_subsystems |-> {"22.1.9"},
                disabled_subsystems |-> {"22.5", "22.6", "23", "22.1.2"},
                cf_modifier |-> Dec(10, -1),
                regulatory_modifier |-> Dec(10, -1)]]

\* a table in which D-He3 also carries p-B11's "23" among its disabled accounts
get_fuel_constraints_copied(fuel_type) ==
    IF fuel_type = "D-He3"
      THEN [FUEL_CONSTRAINTS[fuel_type] EXCEPT !.disabled_subsystems = @ \cup {"23"}]
      ELSE FUEL_CONSTRAINTS[fuel_type]

get_fuel_constraints(fuel_type) == FUEL_CONSTRAINTS[fuel_type]

CONFINEMENT_CONSTRAINTS ==
    [c \in ConfinementType |->
        CASE c = "MCF" ->
               [required_subsystems |-> {"22.1.3"},
                disabled_subsystems |-> {"22.1.8"}]
          [] c = "ICF" ->
               [required_subsystems |-> {"22.1.8"},
                disabled_subsystems |-> {"22.1.3"}]]

get_confinement_constraints(confinement_type) == CONFINEMENT_CONSTRAINTS[confinement_type]

(***************************************************************************)
(* backend/models/subsystem.py.  A Subsystem is a record                   *)
(*   [account, absolute_capital_cost, absolute_fixed_om, variable_om,      *)
(*    required, disabled];                                                 *)
(* name, trl, idiot_index and description are read by no modelled code.    *)
(* FinancialParams is [wacc, lifetime, capacity_factor, capacity_mw,       *)
(* q_eng] with lifetime an int; construction_time is read by no code.      *)
(***************************************************************************)
Subsystem(account, capital, fixed_om, variable_om, disabled) ==
    [account |-> account, absolute_capital_cost |-> capital,
     absolute_fixed_om |-> fixed_om, variable_om |-> variable_om,
     required |-> FALSE, disabled |-> disabled]

FinancialParams(wacc, lifetime, capacity_factor, capacity_mw, q_eng) ==
    [wacc |-> wacc, lifetime |-> lifetime, capacity_factor |-> capacity_factor,
     capacity_mw |-> capacity_mw, q_eng |-> q_eng]

capital_cost_per_kw(self, capacity_mw) ==
    IF FLe(capacity_mw, Zero) THEN Zero
    ELSE FDiv(FMul(self.absolute_capital_cost, Dec(1, 6)), FMul(capacity_mw, FromInt(1000)))

fixed_om_per_kw(self, capacity_mw) ==
    IF FLe(capacity_mw, Zero) THEN Zero
    ELSE FDiv(FMul(self.absolute_fixed_om, Dec(1, 6)), FMul(capacity_mw, FromInt(1000)))

(***************************************************************************)
(* backend/services/lcoe_calculator.py                                     *)
(***************************************************************************)
\* the accounts mapped to 1.0; "24-26" is mapped to 0.0
Q_SCALING_FACTORS ==
    [a \in {"22.1.1", "22.1.2", "22.1.3", "22.1.5", "22.1.6", "22.1.7", "22.1.8",
            "22.1.8b", "22.1.9", "22.5", "22.6", "23", "24-26"} |->
        IF a = "24-26" THEN Zero ELSE FromInt(1)]

\* Q_SCALING_FACTORS.get(account, 0.0)
scaling_flag(account) ==
    IF account \in DOMAIN Q_SCALING_FACTORS THEN Q_SCALING_FACTORS[account] ELSE Zero

\* Q / (1 - Q) in place of Q / (Q - 1)
q_eng_multiplier_swapped(account, q_eng) ==
    IF FLe(q_eng, FromInt(1)) THEN Inf
    ELSE IF FEq(scaling_flag(account), Zero) THEN FromInt(1)
    ELSE FDiv(q_eng, FSub(FromInt(1), q_eng))

\* (Q - 1) / Q in place of Q / (Q - 1)
q_eng_multiplier_inverted(account, q_eng) ==
    IF FLe(q_eng, FromInt(1)) THEN Inf
    ELSE IF FEq(scaling_flag(account), Zero) THEN FromInt(1)
    ELSE FDiv(FSub(q_eng, FromInt(1)), q_eng)

\* every account scaled, whatever its flag
q_eng_multiplier_all_scaled(account, q_eng) ==
    IF FLe(q_eng, FromInt(1)) THEN Inf
    ELSE FDiv(q_eng, FSub(q_eng, FromInt(1)))

q_eng_multiplier(account, q_eng) ==
    IF FLe(q_eng, FromInt(1)) THEN Inf
    ELSE IF FEq(scaling_flag(account), Zero) THEN FromInt(1)
    ELSE FDiv(q_eng, FSub(q_eng, FromInt(1)))

\* the formula alone, without the "if wacc <= 0" case
calculate_crf_unguarded(wacc, lifetime) ==
    LET numerator == FMul(wacc, FPow(FAdd(FromInt(1), wacc), lifetime))
        denominator == FSub(FPow(FAdd(FromInt(1), wacc), lifetime), FromInt(1))
    IN  FDiv(numerator, denominator)

calculate_crf(wacc, lifetime) ==
    IF FLe(wacc, Zero) THEN FDiv(FromInt(1), FromInt(lifetime))
    ELSE LET numerator == FMul(wacc, FPow(FAdd(FromInt(1), wacc), lifetime))
             denominator == FSub(FPow(FAdd(FromInt(1), wacc), lifetime), FromInt(1))
         IN  FDiv(numerator, denominator)

\* a Python dict with str keys: a function on its key set; d[key] = value
EmptyDict == [a \in {} |-> Zero]
DictSet(d, key, value) ==
    [a \in DOMAIN d \cup {key} |-> IF a = key THEN value ELSE d[a]]

\* an iteration that records an O&M attribution only for a subsystem that has O&M
lcoe_step_skips_zero_om(t, sub, capital_per_kw, fixed_per_kw, crf, energy_per_kw) ==
    [total_capex |-> FAdd(t.total_capex, capital_per_kw),
     total_fixed_om |-> FAdd(t.total_fixed_om, fixed_per_kw),
     total_variable_om |-> FAdd(t.total_variable_om, sub.variable_om),
     subsystem_capital |-> DictSet(t.subsystem_capital, sub.account,
                                   FDiv(FMul(crf, capital_per_kw), energy_per_kw)),
     subsystem_om |-> IF FEq(sub.variable_om, Zero)
                        THEN t.subsystem_om
                        ELSE DictSet(t.subsystem_om, sub.account,
                                     FAdd(FDiv(fixed_per_kw, energy_per_kw), sub.variable_om))]

\* one iteration of the loop of calculate_lcoe for a subsystem that is not disabled
lcoe_step(t, sub, capital_per_kw, fixed_per_kw, crf, energy_per_kw) ==
    [total_capex |-> FAdd(t.total_capex, capital_per_kw),
     total_fixed_om |-> FAdd(t.total_fixed_om, fixed_per_kw),
     total_variable_om |-> FAdd(t.total_variable_om, sub.variable_om),
     subsystem_capital |-> DictSet(t.subsystem_capital, sub.account,
                                   FDiv(FMul(crf, capital_per_kw), energy_per_kw)),
     subsystem_om |-> DictSet(t.subsystem_om, sub.account,
                              FAdd(FDiv(fixed_per_kw, energy_per_kw), sub.variable_om))]

\* a loop without the "if subsystem.disabled: continue"
RECURSIVE lcoe_loop_no_skip(_, _, _, _, _)
lcoe_loop_no_skip(subsystems, financial_params, crf, energy_per_kw, n) ==
    IF n = 0
      THEN [total_capex |-> Zero, total_fixed_om |-> Zero, total_variable_om |-> Zero,
            subsystem_capital |-> EmptyDict, subsystem_om |-> EmptyDict]
    ELSE lcoe_step(lcoe_loop_no_skip(subsystems, financial_params, crf, energy_per_kw, n - 1),
                   subsystems[n],
                   FMul(capital_cost_per_kw(subsystems[n], financial_params.capacity_mw),
                        q_eng_multiplier(subsystems[n].account, financial_params.q_eng)),
                   FMul(fixed_om_per_kw(subsystems[n], financial_params.capacity_mw),
                        q_eng_multiplier(subsystems[n].account, financial_params.q_eng)),
                   crf, energy_per_kw)

\* the loop of calculate_lcoe: the running totals after the first n subsystems
RECURSIVE lcoe_loop(_, _, _, _, _)
lcoe_loop(subsystems, financial_params, crf, energy_per_kw, n) ==
    IF n = 0
      THEN [total_capex |-> Zero, total_fixed_om |-> Zero, total_variable_om |-> Zero,
            subsystem_capital |-> EmptyDict, subsystem_om |-> EmptyDict]
    ELSE IF subsystems[n].disabled
      THEN lcoe_loop(subsystems, financial_params, crf, energy_per_kw, n - 1)
    ELSE lcoe_step(lcoe_loop(subsystems, financial_params, crf, energy_per_kw, n - 1),
                   subsystems[n],
                   FMul(capital_cost_per_kw(subsystems[n], financial_params.capacity_mw),
                        q_eng_multiplier(subsystems[n].account, financial_params.q_eng)),
                   FMul(fixed_om_per_kw(subsystems[n], financial_params.capacity_mw),
                        q_eng_multiplier(subsystems[n].account, financial_params.q_eng)),
                   crf, energy_per_kw)

RoundDict(d) == [a \in DOMAIN d |-> FRound(d[a], 2)]
DictRaises(d) == \E a \in DOMAIN d : IsErr(d[a])

\* an LCOEBreakdown; raised = TRUE stands for the ZeroDivisionError that leaves
\* calculate_lcoe without a result
LCOEBreakdown(capital, fixed_om, variable_om, fuel, total, sub_capital, sub_om) ==
    [raised |-> FALSE, capital_contribution |-> capital, fixed_om_contribution |-> fixed_om,
     variable_om_contribution |-> variable_om, fuel_contribution |-> fuel,
     total_lcoe |-> total, subsystem_capital |-> sub_capital, subsystem_om |-> sub_om]

NoBreakdown == LCOEBreakdown(Zero, Zero, Zero, Zero, Zero, EmptyDict, EmptyDict)
RaisedBreakdown == [NoBreakdown EXCEPT !.raised = TRUE]

\* the energy of a plant that always runs at its fuel's full availability
energy_per_kw_year_rated(capacity_factor, cf_modifier) ==
    FDiv(FMul(cf_modifier, FromInt(8760)), FromInt(1000))

\* effective_cf * hours_per_year / 1000
energy_per_kw_year(capacity_factor, cf_modifier) ==
    FDiv(FMul(FMul(capacity_factor, cf_modifier), FromInt(8760)), FromInt(1000))

\* a total that leaves the variable O&M out
lcoe_components_no_variable(t, crf, energy_per_kw, regulatory_modifier) ==
    LET capital_contribution ==
            FDiv(FMul(crf, FMul(t.total_capex, regulatory_modifier)), energy_per_kw)
        fixed_om_contribution == FDiv(t.total_fixed_om, energy_per_kw)
        total_lcoe == FAdd(capital_contribution, fixed_om_contribution)
    IN  IF IsErr(crf) \/ DictRaises(t.subsystem_capital) \/ DictRaises(t.subsystem_om)
           \/ IsErr(total_lcoe)
          THEN RaisedBreakdown
          ELSE LCOEBreakdown(FRound(capital_contribution, 2), FRound(fixed_om_contribution, 2),
                             FRound(t.total_variable_om, 2), Zero,
                             FRound(total_lcoe, 2), RoundDict(t.subsystem_capital),
                             RoundDict(t.subsystem_om))

\* a total that leaves the capital contribution out
lcoe_components_no_capital(t, crf, energy_per_kw, regulatory_modifier) ==
    LET capital_contribution ==
            FDiv(FMul(crf, FMul(t.total_capex, regulatory_modifier)), energy_per_kw)
        fixed_om_contribution == FDiv(t.total_fixed_om, energy_per_kw)
        total_lcoe == FAdd(fixed_om_contribution, t.total_variable_om)
    IN  IF IsErr(crf) \/ DictRaises(t.subsystem_capital) \/ DictRaises(t.subsystem_om)
           \/ IsErr(total_lcoe) \/ IsErr(capital_contribution)
          THEN RaisedBreakdown
          ELSE LCOEBreakdown(FRound(capital_contribution, 2), FRound(fixed_om_contribution, 2),
                             FRound(t.total_variable_om, 2), Zero,
                             FRound(total_lcoe, 2), RoundDict(t.subsystem_capital),
                             RoundDict(t.subsystem_om))

\* the components without "total_capex *= fuel_constraints.regulatory_modifier"
lcoe_components_no_markup(t, crf, energy_per_kw, regulatory_modifier) ==
    LET capital_contribution == FDiv(FMul(crf, t.total_capex), energy_per_kw)
        fixed_om_contribution == FDiv(t.total_fixed_om, energy_per_kw)
        total_lcoe == FAdd(FAdd(capital_contribution, fixed_om_contribution),
                           t.total_variable_om)
    IN  IF IsErr(crf) \/ DictRaises(t.subsystem_capital) \/ DictRaises(t.subsystem_om)
           \/ IsErr(total_lcoe)
          THEN RaisedBreakdown
          ELSE LCOEBreakdown(FRound(capital_contribution, 2), FRound(fixed_om_contribution, 2),
                             FRound(t.total_variable_om, 2), Zero,
                             FRound(total_lcoe, 2), RoundDict(t.subsystem_capital),
                             RoundDict(t.subsystem_om))

\* calculate_lcoe after its loop: the regulatory modifier, the components, the rounding
lcoe_components(t, crf, energy_per_kw, regulatory_modifier) ==
    LET capital_contribution ==
            FDiv(FMul(crf, FMul(t.total_capex, regulatory_modifier)), energy_per_kw)
        fixed_om_contribution == FDiv(t.total_fixed_om, energy_per_kw)
        variable_om_contribution == t.total_variable_om
        fuel_contribution == Zero
        total_lcoe == FAdd(FAdd(FAdd(capital_contribution, fixed_om_contribution),
                                variable_om_contribution), fuel_contribution)
    IN  IF IsErr(crf) \/ DictRaises(t.subsystem_capital) \/ DictRaises(t.subsystem_om)
           \/ IsErr(total_lcoe)
          THEN RaisedBreakdown
          ELSE LCOEBreakdown(FRound(capital_contribution, 2), FRound(fixed_om_contribution, 2),
                             FRound(variable_om_contribution, 2), FRound(fuel_contribution, 2),
                             FRound(total_lcoe, 2), RoundDict(t.subsystem_capital),
                             RoundDict(t.subsystem_om))

lcoe_with(subsystems, financial_params, crf, energy_per_kw, regulatory_modifier) ==
    lcoe_components(lcoe_loop(subsystems, financial_params, crf, energy_per_kw, Len(subsystems)),
                    crf, energy_per_kw, regulatory_modifier)

calculate_lcoe(subsystems, financial_params, fuel_type) ==
    lcoe_with(subsystems, financial_params,
              calculate_crf(financial_params.wacc, financial_params.lifetime),
              energy_per_kw_year(financial_params.capacity_factor,
                                 get_fuel_constraints(fuel_type).cf_modifier),
              get_fuel_constraints(fuel_type).regulatory_modifier)

\* get_feasibility_status from "if ratio <= 1.0" on; the description is the fixed text
\* that starts the f-string of the branch taken
feasibility_status_of(ratio) ==
    IF FLe(ratio, FromInt(1)) THEN <<"green", "Target achieved!">>
    ELSE IF FLe(ratio, Dec(15, -1)) THEN <<"yellow", "Close to target.">>
    ELSE <<"red", "Significant gap.">>

\* "green" only strictly below the target
get_feasibility_status_strict(calculated_lcoe, target_lcoe) ==
    IF FGt(target_lcoe, Zero) /\ FEq(calculated_lcoe, target_lcoe)
      THEN <<"yellow", "Close to target.">>
    ELSE feasibility_status_of(IF FGt(target_lcoe, Zero)
                                 THEN FDiv(calculated_lcoe, target_lcoe) ELSE Inf)

get_feasibility_status(calculated_lcoe, target_lcoe) ==
    feasibility_status_of(IF FGt(target_lcoe, Zero)
                            THEN FDiv(calculated_lcoe, target_lcoe) ELSE Inf)

(***************************************************************************)
(* backend/services/constraint_solver.py                                   *)
(*                                                                         *)
(* A SolverResult is [raised, parameter, required_value, is_int, feasible, *)
(* explanation, constraints].  required_value is kept as a float value;    *)
(* is_int tells that Python holds it as an int.  explanation is the fixed  *)
(* text that starts the f-string of the branch taken.  raised = TRUE       *)
(* stands for the ZeroDivisionError that leaves the solver without a       *)
(* result.                                                                 *)
(***************************************************************************)
SolverResult(parameter, required_value, is_int, feasible, explanation, constraints) ==
    [raised |-> FALSE, parameter |-> parameter, required_value |-> required_value,
     is_int |-> is_int, feasible |-> feasible, explanation |-> explanation,
     constraints |-> constraints]

NoResult == SolverResult("", Zero, TRUE, FALSE, "", EmptyDict)
RaisedResult == [NoResult EXCEPT !.raised = TRUE]

\* sum(s.capital_cost_per_kw(capacity_mw) * q_eng_multiplier(s.account, q_eng)
\*     for s in subsystems if not s.disabled), over the first n subsystems
RECURSIVE sum_capex_per_kw(_, _, _)
sum_capex_per_kw(subsystems, financial_params, n) ==
    IF n = 0 THEN Zero
    ELSE IF subsystems[n].disabled THEN sum_capex_per_kw(subsystems, financial_params, n - 1)
    ELSE FAdd(sum_capex_per_kw(subsystems, financial_params, n - 1),
              FMul(capital_cost_per_kw(subsystems[n], financial_params.capacity_mw),
                   q_eng_multiplier(subsystems[n].account, financial_params.q_eng)))

\* sum(s.fixed_om_per_kw(capacity_mw) * q_eng_multiplier(s.account, q_eng) ...)
RECURSIVE sum_fixed_om_per_kw(_, _, _)
sum_fixed_om_per_kw(subsystems, financial_params, n) ==
    IF n = 0 THEN Zero
    ELSE IF subsystems[n].disabled THEN sum_fixed_om_per_kw(subsystems, financial_params, n - 1)
    ELSE FAdd(sum_fixed_om_per_kw(subsystems, financial_params, n - 1),
              FMul(fixed_om_per_kw(subsystems[n], financial_params.capacity_mw),
                   q_eng_multiplier(subsystems[n].account, financial_params.q_eng)))

\* sum(s.variable_om for s in subsystems if not s.disabled)
RECURSIVE sum_variable_om(_, _)
sum_variable_om(subsystems, n) ==
    IF n = 0 THEN Zero
    ELSE IF subsystems[n].disabled THEN sum_variable_om(subsystems, n - 1)
    ELSE FAdd(sum_variable_om(subsystems, n - 1), subsystems[n].variable_om)

\* sum(s.absolute_capital_cost * q_eng_multiplier(s.account, q_eng) ...)
RECURSIVE sum_capex_abs(_, _, _)
sum_capex_abs(subsystems, financial_params, n) ==
    IF n = 0 THEN Zero
    ELSE IF subsystems[n].disabled THEN sum_capex_abs(subsystems, financial_params, n - 1)
    ELSE FAdd(sum_capex_abs(subsystems, financial_params, n - 1),
              FMul(subsystems[n].absolute_capital_cost,
                   q_eng_multiplier(subsystems[n].account, financial_params.q_eng)))

\* sum(s.absolute_fixed_om * q_eng_multiplier(s.account, q_eng) ...)
RECURSIVE sum_fixed_om_abs(_, _, _)
sum_fixed_om_abs(subsystems, financial_params, n) ==
    IF n = 0 THEN Zero
    ELSE IF subsystems[n].disabled THEN sum_fixed_om_abs(subsystems, financial_params, n - 1)
    ELSE FAdd(sum_fixed_om_abs(subsystems, financial_params, n - 1),
              FMul(subsystems[n].absolute_fixed_om,
                   q_eng_multiplier(subsystems[n].account, financial_params.q_eng)))

\* x * capacity_mw * 1000 / 1e6: from $/kW to $M
per_kw_to_abs(x, capacity_mw) ==
    FDiv(FMul(FMul(x, capacity_mw), FromInt(1000)), Dec(1, 6))

\* feasible from 50% of the current capex on in place of 30%
capex_feasible_from_half(max_capex_abs, current_capex_abs) ==
    FGt(max_capex_abs, Zero) /\ FGe(max_capex_abs, FMul(current_capex_abs, Dec(5, -1)))

\* feasible = max_capex_abs > 0 and max_capex_abs >= current_capex_abs * 0.3
capex_feasible(max_capex_abs, current_capex_abs) ==
    FGt(max_capex_abs, Zero) /\ FGe(max_capex_abs, FMul(current_capex_abs, Dec(3, -1)))

\* solve_for_capex from the feasibility test on
capex_report(max_capex_per_kw, max_capex_abs, current_capex_abs, current_capex_per_kw) ==
    IF IsErr(max_capex_abs) \/ IsErr(current_capex_abs) \/ IsErr(current_capex_per_kw)
      THEN RaisedResult
      ELSE SolverResult("capex", FRound(max_capex_abs, 0), FALSE,
                        capex_feasible(max_capex_abs, current_capex_abs),
                        IF FLe(max_capex_abs, Zero)
                          THEN "Impossible: O&M alone exceeds target LCOE"
                        ELSE IF FLt(max_capex_per_kw, FromInt(500))
                          THEN "total CapEx must be <= ... - very aggressive"
                        ELSE "total CapEx must be <= ...",
                        [k \in {"current_capex_abs", "current_capex_per_kw",
                                "max_capex_per_kw", "reduction_needed_abs"} |->
                            CASE k = "current_capex_abs" -> FRound(current_capex_abs, 0)
                              [] k = "current_capex_per_kw" -> FRound(current_capex_per_kw, 0)
                              [] k = "max_capex_per_kw" -> FRound(max_capex_per_kw, 0)
                              [] k = "reduction_needed_abs" ->
                                   FRound(FSub(current_capex_abs, max_capex_abs), 0)])

\* max_capex_with_reg taken for max_capex_per_kw, the regulatory modifier left in
max_capex_with_reg_of(target_lcoe, crf, energy_per_kw, regulatory_modifier, total_fixed_om, total_variable_om) ==
    FDiv(FSub(FMul(FSub(target_lcoe, total_variable_om), energy_per_kw), total_fixed_om), crf)

\* max_capex_per_kw: ((target - variable O&M) * energy - fixed O&M) / crf / regulatory
max_capex_per_kw_of(target_lcoe, crf, energy_per_kw, regulatory_modifier, total_fixed_om, total_variable_om) ==
    FDiv(FDiv(FSub(FMul(FSub(target_lcoe, total_variable_om), energy_per_kw), total_fixed_om),
              crf),
         regulatory_modifier)

capex_solution(max_capex_per_kw, capacity_mw, current_capex_abs, current_capex_per_kw) ==
    capex_report(max_capex_per_kw, per_kw_to_abs(max_capex_per_kw, capacity_mw),
                 current_capex_abs, current_capex_per_kw)

solve_for_capex(target_lcoe, subsystems, financial_params, fuel_type) ==
    capex_solution(
        max_capex_per_kw_of(target_lcoe,
            calculate_crf(financial_params.wacc, financial_params.lifetime),
            energy_per_kw_year(financial_params.capacity_factor,
                               get_fuel_constraints(fuel_type).cf_modifier),
            get_fuel_constraints(fuel_type).regulatory_modifier,
            sum_fixed_om_per_kw(subsystems, financial_params, Len(subsystems)),
            sum_variable_om(subsystems, Len(subsystems))),
        financial_params.capacity_mw,
        sum_capex_abs(subsystems, financial_params, Len(subsystems)),
        FMul(sum_capex_per_kw(subsystems, financial_params, Len(subsystems)),
             get_fuel_constraints(fuel_type).regulatory_modifier))

\* feasible up to 100% in place of 98%
capacity_factor_feasible_to_one(required_cf) ==
    FLe(Dec(5, -1), required_cf) /\ FLe(required_cf, FromInt(1))

\* feasible = 0.5 <= required_cf <= 0.98
capacity_factor_feasible(required_cf) ==
    FLe(Dec(5, -1), required_cf) /\ FLe(required_cf, Dec(98, -2))

\* solve_for_capacity_factor from the feasibility test on
capacity_factor_report(required_cf, current_cf) ==
    IF IsErr(required_cf) THEN RaisedResult
    ELSE SolverResult("capacity_factor", FRound(required_cf, 3), FALSE,
                      capacity_factor_feasible(required_cf),
                      IF FGt(required_cf, FromInt(1))
                        THEN "Need ...% CF (impossible - max is 100%)"
                      ELSE IF FGt(required_cf, Dec(95, -2))
                        THEN "Need ...% CF (very aggressive - best plants achieve ~95%)"
                      ELSE IF FLt(required_cf, Dec(5, -1))
                        THEN "Need only ...% CF (easily achievable)"
                      ELSE "Need ...% CF to hit",
                      [k \in {"current_cf"} |-> current_cf])

\* required_cf_base returned as it is, the fuel's CF modifier not divided out
required_cf_base_of(crf, total_capex, total_fixed_om, denominator, cf_modifier) ==
    FDiv(FAdd(FMul(crf, total_capex), total_fixed_om), denominator)

\* required_cf = (crf * total_capex + total_fixed_om) / denominator / cf_modifier
required_cf_of(crf, total_capex, total_fixed_om, denominator, cf_modifier) ==
    FDiv(FDiv(FAdd(FMul(crf, total_capex), total_fixed_om), denominator), cf_modifier)

\* "if denominator < 0" in place of "if denominator <= 0"
capacity_factor_solution_strict(crf, total_capex, total_fixed_om, denominator, cf_modifier, current_cf) ==
    IF IsErr(crf) \/ IsErr(total_capex) \/ IsErr(total_fixed_om) \/ IsErr(denominator)
      THEN RaisedResult
    ELSE IF FLt(denominator, Zero)
      THEN SolverResult("capacity_factor", Inf, FALSE, FALSE,
                        "Impossible: Variable O&M exceeds target LCOE", EmptyDict)
    ELSE capacity_factor_report(
             required_cf_of(crf, total_capex, total_fixed_om, denominator, cf_modifier),
             current_cf)

\* solve_for_capacity_factor from "denominator = ..." on
capacity_factor_solution(crf, total_capex, total_fixed_om, denominator, cf_modifier, current_cf) ==
    IF IsErr(crf) \/ IsErr(total_capex) \/ IsErr(total_fixed_om) \/ IsErr(denominator)
      THEN RaisedResult
    ELSE IF FLe(denominator, Zero)
      THEN SolverResult("capacity_factor", Inf, FALSE, FALSE,
                        "Impossible: Variable O&M exceeds target LCOE", EmptyDict)
    ELSE capacity_factor_report(
             required_cf_of(crf, total_capex, total_fixed_om, denominator, cf_modifier),
             current_cf)

solve_for_capacity_factor(target_lcoe, subsystems, financial_params, fuel_type) ==
    capacity_factor_solution(
        calculate_crf(financial_params.wacc, financial_params.lifetime),
        FMul(sum_capex_per_kw(subsystems, financial_params, Len(subsystems)),
             get_fuel_constraints(fuel_type).regulatory_modifier),
        sum_fixed_om_per_kw(subsystems, financial_params, Len(subsystems)),
        FDiv(FMul(FSub(target_lcoe, sum_variable_om(subsystems, Len(subsystems))),
                  FromInt(8760)), FromInt(1000)),
        get_fuel_constraints(fuel_type).cf_modifier,
        financial_params.capacity_factor)

\* feasible whenever the solved fixed O&M is positive, without the 30% floor
fixed_om_feasible_when_positive(max_fixed_om_abs, current_fixed_om_abs) ==
    FGt(max_fixed_om_abs, Zero)

\* feasible = max_fixed_om_abs > 0 and max_fixed_om_abs >= current_fixed_om_abs * 0.3
fixed_om_feasible(max_fixed_om_abs, current_fixed_om_abs) ==
    FGt(max_fixed_om_abs, Zero)
      /\ FGe(max_fixed_om_abs, FMul(current_fixed_om_abs, Dec(3, -1)))

\* solve_for_fixed_om from the feasibility test on
fixed_om_report(max_fixed_om_per_kw, max_fixed_om_abs, current_fixed_om_abs, current_fixed_om_per_kw) ==
    IF IsErr(max_fixed_om_abs) \/ IsErr(current_fixed_om_abs) \/ IsErr(current_fixed_om_per_kw)
      THEN RaisedResult
      ELSE SolverResult("fixed_om", FRound(max_fixed_om_abs, 0), FALSE,
                        fixed_om_feasible(max_fixed_om_abs, current_fixed_om_abs),
                        IF FLe(max_fixed_om_abs, Zero)
                          THEN "Impossible: Capital costs alone exceed target LCOE"
                        ELSE IF FLt(max_fixed_om_per_kw, FromInt(20))
                          THEN "Fixed O&M must be < ... - very aggressive"
                        ELSE "Fixed O&M must be < ... to hit",
                        [k \in {"current_fixed_om_abs", "current_fixed_om_per_kw",
                                "max_fixed_om_per_kw"} |->
                            CASE k = "current_fixed_om_abs" -> FRound(current_fixed_om_abs, 0)
                              [] k = "current_fixed_om_per_kw" ->
                                   FRound(current_fixed_om_per_kw, 0)
                              [] k = "max_fixed_om_per_kw" -> FRound(max_fixed_om_per_kw, 0)])

\* max_fixed_om_per_kw: (target - variable O&M) * energy - crf * total_capex
max_fixed_om_per_kw_of(target_lcoe, crf, energy_per_kw, total_capex, total_variable_om) ==
    FSub(FMul(FSub(target_lcoe, total_variable_om), energy_per_kw), FMul(crf, total_capex))

fixed_om_solution(max_fixed_om_per_kw, capacity_mw, current_fixed_om_abs, current_fixed_om_per_kw) ==
    fixed_om_report(max_fixed_om_per_kw, per_kw_to_abs(max_fixed_om_per_kw, capacity_mw),
                    current_fixed_om_abs, current_fixed_om_per_kw)

solve_for_fixed_om(target_lcoe, subsystems, financial_params, fuel_type) ==
    fixed_om_solution(
        max_fixed_om_per_kw_of(target_lcoe,
            calculate_crf(financial_params.wacc, financial_params.lifetime),
            energy_per_kw_year(financial_params.capacity_factor,
                               get_fuel_constraints(fuel_type).cf_modifier),
            FMul(sum_capex_per_kw(subsystems, financial_params, Len(subsystems)),
                 get_fuel_constraints(fuel_type).regulatory_modifier),
            sum_variable_om(subsystems, Len(subsystems))),
        financial_params.capacity_mw,
        sum_fixed_om_abs(subsystems, financial_params, Len(subsystems)),
        sum_fixed_om_per_kw(subsystems, financial_params, Len(subsystems)))

\* the values the closures lcoe_at_wacc and lcoe_at_lifetime capture
Captured(wacc, lifetime, total_capex, total_fixed_om, energy_per_kw, total_variable_om) ==
    [wacc |-> wacc, lifetime |-> lifetime, total_capex |-> total_capex,
     total_fixed_om |-> total_fixed_om, energy_per_kw |-> energy_per_kw,
     total_variable_om |-> total_variable_om]

\* (crf * total_capex + total_fixed_om) / energy_per_kw + total_variable_om
lcoe_at_crf(crf, c) ==
    FAdd(FDiv(FAdd(FMul(crf, c.total_capex), c.total_fixed_om), c.energy_per_kw),
         c.total_variable_om)

lcoe_at_wacc(wacc, c) == lcoe_at_crf(calculate_crf(wacc, c.lifetime), c)

lcoe_at_lifetime(lifetime, c) == lcoe_at_crf(calculate_crf(c.wacc, lifetime), c)

\* the state of a bisection loop: low, high, the last mid, whether the loop has hit
\* its break, the number of iterations run, and whether an evaluation raised
Bisection(low, high, mid, done, iterations, raised) ==
    [low |-> low, high |-> high, mid |-> mid, done |-> done, iterations |-> iterations,
     raised |-> raised]

\* a "while True" loop: only the break ends it
loop_continues_until_break(st, k) ==
    ~st.done

\* "for _ in range(k)" goes on from the state st: no break yet, and passes left
loop_continues(st, k) ==
    ~st.done /\ st.iterations < k

\* no loop entered
NoLoop == Bisection(Zero, Zero, Zero, FALSE, 0, FALSE)

\* an iteration that stops within 1 $/MWh of the target in place of 0.01
wacc_iteration_at_loose(target_lcoe, st, mid, lcoe_mid) ==
    IF IsErr(lcoe_mid) THEN Bisection(st.low, st.high, mid, TRUE, st.iterations + 1, TRUE)
    ELSE IF FLt(FAbs(FSub(lcoe_mid, target_lcoe)), FromInt(1))
      THEN Bisection(st.low, st.high, mid, TRUE, st.iterations + 1, FALSE)
    ELSE IF FGt(lcoe_mid, target_lcoe)
      THEN Bisection(st.low, mid, mid, FALSE, st.iterations + 1, FALSE)
    ELSE Bisection(mid, st.high, mid, FALSE, st.iterations + 1, FALSE)

\* the rest of one iteration of solve_for_wacc's loop once mid and lcoe_mid are computed
wacc_iteration_at(target_lcoe, st, mid, lcoe_mid) ==
    IF IsErr(lcoe_mid) THEN Bisection(st.low, st.high, mid, TRUE, st.iterations + 1, TRUE)
    ELSE IF FLt(FAbs(FSub(lcoe_mid, target_lcoe)), Dec(1, -2))
      THEN Bisection(st.low, st.high, mid, TRUE, st.iterations + 1, FALSE)
    ELSE IF FGt(lcoe_mid, target_lcoe)
      THEN Bisection(st.low, mid, mid, FALSE, st.iterations + 1, FALSE)
    ELSE Bisection(mid, st.high, mid, FALSE, st.iterations + 1, FALSE)

\* one iteration of solve_for_wacc's loop
wacc_iteration(target_lcoe, c, st) ==
    wacc_iteration_at(target_lcoe, st, FDiv(FAdd(st.low, st.high), FromInt(2)),
                      lcoe_at_wacc(FDiv(FAdd(st.low, st.high), FromInt(2)), c))

\* "for _ in range(k)" of solve_for_wacc from the state st
RECURSIVE wacc_bisection(_, _, _, _)
wacc_bisection(target_lcoe, c, st, k) ==
    IF k = 0 \/ st.done THEN st
    ELSE wacc_bisection(target_lcoe, c, wacc_iteration(target_lcoe, c, st), k - 1)

\* feasible from 0.02 on in place of 0.03
wacc_report_from_two_percent(b, current_wacc) ==
    IF b.raised THEN RaisedResult
    ELSE SolverResult("wacc", FRound(b.mid, 3), FALSE, FGe(b.mid, Dec(2, -2)),
                      "Need ...% WACC", [k \in {"current_wacc"} |-> current_wacc])

\* solve_for_wacc after its bisection
wacc_report(b, current_wacc) ==
    IF b.raised THEN RaisedResult
    ELSE SolverResult("wacc", FRound(b.mid, 3), FALSE, FGe(b.mid, Dec(3, -2)),
                      IF FLt(b.mid, Dec(3, -2))
                        THEN "Need ...% WACC (below typical project finance rates)"
                      ELSE IF FLt(b.mid, Dec(6, -2))
                        THEN "Need ...% WACC (requires favorable financing)"
                      ELSE "Need ...% WACC to hit",
                      [k \in {"current_wacc"} |-> current_wacc])

\* the loop entered without the check at 25%
wacc_enters_loop_unchecked_above(target_lcoe, lcoe_at_1pct, lcoe_at_25pct) ==
    /\ ~IsErr(lcoe_at_1pct) /\ ~IsErr(lcoe_at_25pct)
    /\ ~FGt(lcoe_at_1pct, target_lcoe)

\* solve_for_wacc reaches its loop: neither evaluation raised and neither bound check
\* returned
wacc_enters_loop(target_lcoe, lcoe_at_1pct, lcoe_at_25pct) ==
    /\ ~IsErr(lcoe_at_1pct) /\ ~IsErr(lcoe_at_25pct)
    /\ ~FGt(lcoe_at_1pct, target_lcoe)
    /\ ~FLt(lcoe_at_25pct, target_lcoe)

\* solve_for_wacc from "# Check bounds" on
wacc_solution(target_lcoe, c, lcoe_at_1pct, lcoe_at_25pct) ==
    IF IsErr(lcoe_at_1pct) \/ IsErr(lcoe_at_25pct) THEN RaisedResult
    ELSE IF FGt(lcoe_at_1pct, target_lcoe)
      THEN SolverResult("wacc", Zero, TRUE, FALSE, "Even at 1% WACC, LCOE is ...", EmptyDict)
    ELSE IF FLt(lcoe_at_25pct, target_lcoe)
      THEN SolverResult("wacc", Dec(25, -2), FALSE, TRUE,
                        "Target achievable even at 25% WACC", EmptyDict)
    ELSE wacc_report(wacc_bisection(target_lcoe, c,
                                    Bisection(Dec(1, -2), Dec(25, -2), Zero, FALSE, 0, FALSE),
                                    50),
                     c.wacc)

wacc_bounds(target_lcoe, c) ==
    wacc_solution(target_lcoe, c, lcoe_at_wacc(Dec(1, -2), c), lcoe_at_wacc(Dec(25, -2), c))

\* the sums and the energy per kW-year that solve_for_wacc and solve_for_lifetime compute
\* before they define their closure
captured_costs(subsystems, financial_params, fuel_type) ==
    Captured(financial_params.wacc, financial_params.lifetime,
             FMul(sum_capex_per_kw(subsystems, financial_params, Len(subsystems)),
                  get_fuel_constraints(fuel_type).regulatory_modifier),
             sum_fixed_om_per_kw(subsystems, financial_params, Len(subsystems)),
             energy_per_kw_year(financial_params.capacity_factor,
                                get_fuel_constraints(fuel_type).cf_modifier),
             sum_variable_om(subsystems, Len(subsystems)))

solve_for_wacc(target_lcoe, subsystems, financial_params, fuel_type) ==
    wacc_bounds(target_lcoe, captured_costs(subsystems, financial_params, fuel_type))

\* the rest of one iteration of solve_for_lifetime's loop once mid and lcoe_mid are computed
lifetime_iteration_at(target_lcoe, st, mid, lcoe_mid) ==
    IF IsErr(lcoe_mid) THEN Bisection(st.low, st.high, mid, TRUE, st.iterations + 1, TRUE)
    ELSE IF FLt(FAbs(FSub(lcoe_mid, target_lcoe)), Dec(1, -1))
      THEN Bisection(st.low, st.high, mid, TRUE, st.iterations + 1, FALSE)
    ELSE IF FGt(lcoe_mid, target_lcoe)
      THEN Bisection(mid, st.high, mid, FALSE, st.iterations + 1, FALSE)
    ELSE Bisection(st.low, mid, mid, FALSE, st.iterations + 1, FALSE)

\* one iteration of solve_for_lifetime's loop, on ints low, high, mid
lifetime_iteration(target_lcoe, c, st) ==
    lifetime_iteration_at(target_lcoe, st, (st.low + st.high) \div 2,
                          lcoe_at_lifetime((st.low + st.high) \div 2, c))

\* "for _ in range(k)" of solve_for_lifetime from the state st
RECURSIVE lifetime_bisection(_, _, _, _)
lifetime_bisection(target_lcoe, c, st, k) ==
    IF k = 0 \/ st.done THEN st
    ELSE lifetime_bisection(target_lcoe, c, lifetime_iteration(target_lcoe, c, st), k - 1)

\* feasible up to 60 years in place of 50
lifetime_report_through_sixty(b, current_lifetime) ==
    IF b.raised THEN RaisedResult
    ELSE SolverResult("lifetime", FromInt(b.mid), TRUE, b.mid <= 60,
                      "Need ...-year lifetime", [k \in {"current_lifetime"} |->
                                                    FromInt(current_lifetime)])

\* solve_for_lifetime after its bisection
lifetime_report(b, current_lifetime) ==
    IF b.raised THEN RaisedResult
    ELSE SolverResult("lifetime", FromInt(b.mid), TRUE, b.mid <= 50,
                      IF b.mid > 50
                        THEN "Need ...-year lifetime (beyond typical plant life)"
                      ELSE IF b.mid > 40
                        THEN "Need ...-year lifetime (achievable with life extension)"
                      ELSE "Need ...-year lifetime to hit",
                      [k \in {"current_lifetime"} |-> FromInt(current_lifetime)])

\* solve_for_lifetime reaches its loop
lifetime_enters_loop(target_lcoe, lcoe_at_60yr, lcoe_at_10yr) ==
    /\ ~IsErr(lcoe_at_60yr) /\ ~IsErr(lcoe_at_10yr)
    /\ ~FGt(lcoe_at_60yr, target_lcoe)
    /\ ~FLt(lcoe_at_10yr, target_lcoe)

\* solve_for_lifetime from "# Check bounds" on
lifetime_solution(target_lcoe, c, lcoe_at_60yr, lcoe_at_10yr) ==
    IF IsErr(lcoe_at_60yr) \/ IsErr(lcoe_at_10yr) THEN RaisedResult
    ELSE IF FGt(lcoe_at_60yr, target_lcoe)
      THEN SolverResult("lifetime", FromInt(60), TRUE, FALSE,
                        "Even at 60-year lifetime, LCOE is ...", EmptyDict)
    ELSE IF FLt(lcoe_at_10yr, target_lcoe)
      THEN SolverResult("lifetime", FromInt(10), TRUE, TRUE,
                        "Target achievable even with 10-year lifetime", EmptyDict)
    ELSE lifetime_report(lifetime_bisection(target_lcoe, c,
                                            Bisection(10, 60, 0, FALSE, 0, FALSE), 20),
                         c.lifetime)

lifetime_bounds(target_lcoe, c) ==
    lifetime_solution(target_lcoe, c, lcoe_at_lifetime(60, c), lcoe_at_lifetime(10, c))

solve_for_lifetime(target_lcoe, subsystems, financial_params, fuel_type) ==
    lifetime_bounds(target_lcoe, captured_costs(subsystems, financial_params, fuel_type))

\* the loop of solve_for_q_eng over the subsystems that are not disabled: capex and
\* fixed O&M per kW, split by scaling_flag > 0
RECURSIVE q_split(_, _, _)
q_split(subsystems, capacity_mw, n) ==
    IF n = 0
      THEN [capex_q |-> Zero, capex_no_q |-> Zero, om_q |-> Zero, om_no_q |-> Zero]
    ELSE IF subsystems[n].disabled THEN q_split(subsystems, capacity_mw, n - 1)
    ELSE IF FGt(scaling_flag(subsystems[n].account), Zero)
      THEN [q_split(subsystems, capacity_mw, n - 1) EXCEPT
              !.capex_q = FAdd(@, capital_cost_per_kw(subsystems[n], capacity_mw)),
              !.om_q = FAdd(@, fixed_om_per_kw(subsystems[n], capacity_mw))]
    ELSE [q_split(subsystems, capacity_mw, n - 1) EXCEPT
              !.capex_no_q = FAdd(@, capital_cost_per_kw(subsystems[n], capacity_mw)),
              !.om_no_q = FAdd(@, fixed_om_per_kw(subsystems[n], capacity_mw))]

\* solve_for_q_eng from the feasibility test on
q_eng_report(required_q, plant_size_factor, current_q_eng) ==
    IF IsErr(required_q) \/ IsErr(plant_size_factor) THEN RaisedResult
    ELSE SolverResult("q_eng", FRound(required_q, 1), FALSE,
                      FLe(Dec(15, -1), required_q) /\ FLe(required_q, FromInt(50)),
                      IF FLt(required_q, Dec(15, -1))
                        THEN "Need Q_eng = ... (below physical minimum ~1.5)"
                      ELSE IF FGt(required_q, FromInt(50))
                        THEN "Need Q_eng > 50 - easily achievable"
                      ELSE IF FGt(required_q, FromInt(20))
                        THEN "Need Q_eng >= ... (achievable for mature designs)"
                      ELSE IF FGt(required_q, FromInt(5))
                        THEN "Need Q_eng >= ... (...% recirculated)"
                      ELSE "Need Q_eng >= ... (high recirculating power, ...% recirculated)",
                      [k \in {"current_q_eng", "plant_size_factor"} |->
                          IF k = "current_q_eng" THEN current_q_eng
                                                 ELSE FRound(plant_size_factor, 2)])

\* required_q = r / (r - 1) and plant_size_factor = required_q / (required_q - 1)
q_eng_inversion(required_q, current_q_eng) ==
    q_eng_report(required_q, FDiv(required_q, FSub(required_q, FromInt(1))), current_q_eng)

\* r taken for Q itself, without the inversion Q = r / (r - 1)
q_eng_ratio_uninverted(r, current_q_eng) ==
    IF IsErr(r) THEN RaisedResult
    ELSE IF FLe(r, FromInt(1))
      THEN SolverResult("q_eng", Inf, FALSE, FALSE,
                        "Impossible: Q-scaling costs too high for target", EmptyDict)
    ELSE q_eng_inversion(r, current_q_eng)

\* solve_for_q_eng from "r = (a - c_nq) / c_q" on
q_eng_ratio(r, current_q_eng) ==
    IF IsErr(r) THEN RaisedResult
    ELSE IF FLe(r, FromInt(1))
      THEN SolverResult("q_eng", Inf, FALSE, FALSE,
                        "Impossible: Q-scaling costs too high for target", EmptyDict)
    ELSE q_eng_inversion(FDiv(r, FSub(r, FromInt(1))), current_q_eng)

\* solve_for_q_eng from "if a <= c_nq" on
q_eng_solution(a, c_q, c_nq, current_q_eng) ==
    IF IsErr(a) \/ IsErr(c_q) \/ IsErr(c_nq) THEN RaisedResult
    ELSE IF FLe(a, c_nq)
      THEN SolverResult("q_eng", Inf, FALSE, FALSE,
                        "Impossible: non-Q costs alone exceed target", EmptyDict)
    ELSE IF FLe(c_q, Zero)
      THEN SolverResult("q_eng", Dec(15, -1), FALSE, TRUE,
                        "No Q-scaling costs active - any Q_eng achieves target", EmptyDict)
    ELSE q_eng_ratio(FDiv(FSub(a, c_nq), c_q), current_q_eng)

\* c_q, c_nq and a from the split costs
q_eng_costs(target_lcoe, split, crf, energy_per_kw, regulatory_modifier, total_variable_om, current_q_eng) ==
    q_eng_solution(FMul(FSub(target_lcoe, total_variable_om), energy_per_kw),
                   FAdd(FMul(FMul(crf, split.capex_q), regulatory_modifier), split.om_q),
                   FAdd(FMul(FMul(crf, split.capex_no_q), regulatory_modifier), split.om_no_q),
                   current_q_eng)

solve_for_q_eng(target_lcoe, subsystems, financial_params, fuel_type) ==
    q_eng_costs(target_lcoe,
                q_split(subsystems, financial_params.capacity_mw, Len(subsystems)),
                calculate_crf(financial_params.wacc, financial_params.lifetime),
                energy_per_kw_year(financial_params.capacity_factor,
                                   get_fuel_constraints(fuel_type).cf_modifier),
                get_fuel_constraints(fuel_type).regulatory_modifier,
                sum_variable_om(subsystems, Len(subsystems)),
                financial_params.q_eng)

(***************************************************************************)
(* backend/routes/lcoe.py (routes/solver.py holds the same function)       *)
(***************************************************************************)
\* flags that stay set once set: required and disabled or-ed with the flags the record
\* carries
apply_constraints_keeping_flags(subsystems, fuel_type, confinement_type) ==
    [i \in 1..Len(subsystems) |->
        [subsystems[i] EXCEPT
            !.required = @ \/ subsystems[i].account \in
                (get_fuel_constraints(fuel_type).required_subsystems
                   \cup get_confinement_constraints(confinement_type).required_subsystems),
            !.disabled = @ \/ subsystems[i].account \in
                (get_fuel_constraints(fuel_type).disabled_subsystems
                   \cup get_confinement_constraints(confinement_type).disabled_subsystems)]]

\* the list apply_constraints returns
apply_constraints(subsystems, fuel_type, confinement_type) ==
    LET fuel_constraints == get_fuel_constraints(fuel_type)
        confinement_constraints == get_confinement_constraints(confinement_type)
        required == fuel_constraints.required_subsystems
                      \cup confinement_constraints.required_subsystems
        disabled == fuel_constraints.disabled_subsystems
                      \cup confinement_constraints.disabled_subsystems
    IN  [i \in 1..Len(subsystems) |->
            [subsystems[i] EXCEPT !.required = subsystems[i].account \in required,
                                  !.disabled = subsystems[i].account \in disabled]]

\* the flags stamped on the records of the list passed
passed_list_stamped(subsystems, fuel_type, confinement_type) ==
    apply_constraints(subsystems, fuel_type, confinement_type)

\* the list passed to apply_constraints as the call leaves it: each record is copied
\* by model_dump() and the flags are set on the copy, from which Subsystem(**sub_dict)
\* builds a new record, so the records passed keep their fields
passed_list(subsystems, fuel_type, confinement_type) ==
    subsystems

(***************************************************************************)
(* The inputs.  The subsystem values are those of the repository's tests   *)
(* (tests/test_lcoe_calculator.py, tests/test_constraint_solver.py); the   *)
(* financial parameters are the FinancialParams defaults, each field in    *)
(* turn at the ends of its validated range, the two corners of the         *)
(* validated box, and values outside the validated ranges.                 *)
(***************************************************************************)
NumSubsystemSamples == 4
MaxSubsystems == 2
NumParamSamples == 17

SubsystemSamples ==
    << Subsystem("22.1.3", FromInt(800), FromInt(20), Zero, FALSE),
       Subsystem("23", FromInt(400), FromInt(12), Dec(5, -1), FALSE),
       Subsystem("22.5", FromInt(500), FromInt(15), Zero, TRUE),
       Subsystem("24-26", FromInt(350), FromInt(10), Dec(3, -1), FALSE),
       Subsystem("22.1.9", FromInt(300), FromInt(8), Zero, FALSE),
       Subsystem("22.1.8", FromInt(600), FromInt(25), Zero, TRUE) >>

DefaultParams == FinancialParams(Dec(8, -2), 40, Dec(90, -2), FromInt(1000), FromInt(10))

ParamSamples ==
    << DefaultParams,
       [DefaultParams EXCEPT !.wacc = Dec(1, -2)],
       [DefaultParams EXCEPT !.wacc = Dec(25, -2)],
       [DefaultParams EXCEPT !.lifetime = 10],
       [DefaultParams EXCEPT !.lifetime = 60],
       [DefaultParams EXCEPT !.capacity_factor = Dec(5, -1)],
       [DefaultParams EXCEPT !.capacity_factor = FromInt(1)],
       [DefaultParams EXCEPT !.capacity_mw = FromInt(100)],
       [DefaultParams EXCEPT !.capacity_mw = FromInt(5000)],
       [DefaultParams EXCEPT !.q_eng = Dec(15, -1)],
       [DefaultParams EXCEPT !.q_eng = FromInt(50)],
       [DefaultParams EXCEPT !.q_eng = Dec(101, -2)],
       FinancialParams(Dec(25, -2), 10, Dec(5, -1), FromInt(100), Dec(101, -2)),
       FinancialParams(Dec(1, -2), 60, FromInt(1), FromInt(5000), FromInt(50)),
       [DefaultParams EXCEPT !.capacity_factor = Zero],
       [DefaultParams EXCEPT !.capacity_mw = Zero],
       [DefaultParams EXCEPT !.q_eng = FromInt(1)],
       [DefaultParams EXCEPT !.q_eng = Dec(5, -1)],
       [DefaultParams EXCEPT !.wacc = Zero] >>

\* the Field(ge=..., le=..., gt=...) ranges of FinancialParams
ValidParams(p) ==
    /\ FGe(p.wacc, Dec(1, -2)) /\ FLe(p.wacc, Dec(25, -2))
    /\ p.lifetime >= 10 /\ p.lifetime <= 60
    /\ FGe(p.capacity_factor, Dec(5, -1)) /\ FLe(p.capacity_factor, FromInt(1))
    /\ FGe(p.capacity_mw, FromInt(100)) /\ FLe(p.capacity_mw, FromInt(5000))
    /\ FGt(p.q_eng, FromInt(1)) /\ FLe(p.q_eng, FromInt(50))

\* the subsystem lists of at most MaxSubsystems of the first NumSubsystemSamples samples
SubsystemLists ==
    { [i \in 1..n |-> SubsystemSamples[ix[i]]] :
        n \in 0..MaxSubsystems, ix \in [1..MaxSubsystems -> 1..NumSubsystemSamples] }

\* solver is the name of the solver that was called, result what it returned;
\* args are the arguments of the last call of apply_constraints, or of a direct call of
\* calculate_crf, q_eng_multiplier or get_feasibility_status, and value what that
\* returned; loop holds the local variables
\* of a bisection loop that is run one iteration at a time
VARIABLES subsystems, financial_params, fuel_type, confinement_type, target_lcoe,
          pc, breakdown, solver, result, args, value, loop

vars == <<subsystems, financial_params, fuel_type, confinement_type, target_lcoe,
          pc, breakdown, solver, result, args, value, loop>>

\* a caller's arguments: the route's request body, or a direct call as in the tests
Init ==
    /\ subsystems \in SubsystemLists
    /\ financial_params \in {ParamSamples[i] : i \in 1..NumParamSamples}
    /\ fuel_type \in FuelType
    /\ confinement_type = "MCF"
    /\ target_lcoe = FromInt(10)
    /\ pc = "request"
    /\ breakdown = NoBreakdown
    /\ solver = ""
    /\ result = NoResult
    /\ args = << >>
    /\ value = Zero
    /\ loop = NoLoop

\* routes/lcoe.py: subsystems = apply_constraints(subsystems, fuel_type, confinement_type);
\* args keeps the arguments of the call, the list as the call left it
ApplyConstraints(f, c) ==
    /\ pc \in {"request", "annotated"}
    /\ subsystems' = apply_constraints(subsystems, f, c)
    /\ args' = [subsystems |-> passed_list(subsystems, f, c),
                fuel_type |-> f, confinement_type |-> c]
    /\ fuel_type' = f
    /\ confinement_type' = c
    /\ pc' = "annotated"
    /\ UNCHANGED <<value, loop, financial_params, target_lcoe, breakdown, solver, result>>

\* breakdown = calculate_lcoe(subsystems, financial_params, fuel_type)
CalculateLCOE ==
    /\ pc \in {"request", "annotated"}
    /\ breakdown' = calculate_lcoe(subsystems, financial_params, fuel_type)
    /\ pc' = "lcoe"
    /\ UNCHANGED <<args, value, loop,
                   subsystems, financial_params, fuel_type, confinement_type, target_lcoe,
                   solver, result>>

Next ==
    \/ \E f \in FuelType, c \in ConfinementType : ApplyConstraints(f, c)
    \/ CalculateLCOE

Spec == Init /\ [][Next]_vars

(***************************************************************************)
(* The solvers, called directly as in tests/test_constraint_solver.py.     *)
(* The lists are the test list, its parts, a list of one small subsystem,  *)
(* lists with a disabled subsystem and a list of one subsystem of          *)
(* negligible cost; the targets are those of the tests and of the solve    *)
(* route's range [1, 100], and targets below it.                           *)
(***************************************************************************)
NumSolverLists == 7
NumSolverParams == 9
NumTargetSamples == 7

SolverLists ==
    << <<SubsystemSamples[1], SubsystemSamples[2], SubsystemSamples[4]>>,
       << >>,
       <<SubsystemSamples[4]>>,
       <<SubsystemSamples[2]>>,
       <<Subsystem("22.1.3", FromInt(5), Zero, Zero, FALSE)>>,
       <<SubsystemSamples[1], SubsystemSamples[3], SubsystemSamples[4]>>,
       <<Subsystem("22.1.3", Dec(1, -18), Zero, Zero, FALSE)>>,
       <<SubsystemSamples[2], SubsystemSamples[5]>> >>

\* the defaults, values at the ends of the validated ranges, and the values outside
\* them that the solvers' callers are meant to screen: no capacity, Q_eng <= 1, no output
SolverParamSamples ==
    << DefaultParams,
       [DefaultParams EXCEPT !.capacity_mw = Zero],
       [DefaultParams EXCEPT !.q_eng = FromInt(1)],
       [DefaultParams EXCEPT !.capacity_mw = FromInt(5000)],
       [DefaultParams EXCEPT !.capacity_factor = Dec(5, -1)],
       [DefaultParams EXCEPT !.lifetime = 10],
       FinancialParams(Dec(1, -2), 60, FromInt(1), FromInt(5000), FromInt(50)),
       [DefaultParams EXCEPT !.capacity_factor = Zero],
       [DefaultParams EXCEPT !.capacity_mw = Zero, !.q_eng = FromInt(1)],
       [DefaultParams EXCEPT !.q_eng = Dec(5, -1)] >>

TargetSamples ==
    << FromInt(30), FromInt(10), Dec(5, -1), Dec(1, -1), FromInt(1), FromInt(35), FromInt(24),
       FromInt(100) >>

SolverInit ==
    /\ subsystems \in {SolverLists[i] : i \in 1..NumSolverLists}
    /\ financial_params \in {SolverParamSamples[i] : i \in 1..NumSolverParams}
    /\ fuel_type \in FuelType
    /\ confinement_type = "MCF"
    /\ target_lcoe \in {TargetSamples[i] : i \in 1..NumTargetSamples}
    /\ pc = "request"
    /\ breakdown = NoBreakdown
    /\ solver = ""
    /\ result = NoResult
    /\ args = << >>
    /\ value = Zero
    /\ loop = NoLoop

\* one action per solver: result = solve_for_...(target_lcoe, subsystems, financial_params,
\* fuel_type)
SolveForCapex ==
    /\ pc = "request"
    /\ solver' = "solve_for_capex"
    /\ result' = solve_for_capex(target_lcoe, subsystems, financial_params, fuel_type)
    /\ pc' = "solved"
    /\ UNCHANGED <<args, value, loop,
                   subsystems, financial_params, fuel_type, confinement_type, target_lcoe,
                   breakdown>>

SolveForCapacityFactor ==
    /\ pc = "request"
    /\ solver' = "solve_for_capacity_factor"
    /\ result' = solve_for_capacity_factor(target_lcoe, subsystems, financial_params, fuel_type)
    /\ pc' = "solved"
    /\ UNCHANGED <<args, value, loop,
                   subsystems, financial_params, fuel_type, confinement_type, target_lcoe,
                   breakdown>>

SolveForWacc ==
    /\ pc = "request"
    /\ solver' = "solve_for_wacc"
    /\ result' = solve_for_wacc(target_lcoe, subsystems, financial_params, fuel_type)
    /\ pc' = "solved"
    /\ UNCHANGED <<args, value, loop,
                   subsystems, financial_params, fuel_type, confinement_type, target_lcoe,
                   breakdown>>

SolveForFixedOm ==
    /\ pc = "request"
    /\ solver' = "solve_for_fixed_om"
    /\ result' = solve_for_fixed_om(target_lcoe, subsystems, financial_params, fuel_type)
    /\ pc' = "solved"
    /\ UNCHANGED <<args, value, loop,
                   subsystems, financial_params, fuel_type, confinement_type, target_lcoe,
                   breakdown>>

SolveForLifetime ==
    /\ pc = "request"
    /\ solver' = "solve_for_lifetime"
    /\ result' = solve_for_lifetime(target_lcoe, subsystems, financial_params, fuel_type)
    /\ pc' = "solved"
    /\ UNCHANGED <<args, value, loop,
                   subsystems, financial_params, fuel_type, confinement_type, target_lcoe,
                   breakdown>>

SolveForQEng ==
    /\ pc = "request"
    /\ solver' = "solve_for_q_eng"
    /\ result' = solve_for_q_eng(target_lcoe, subsystems, financial_params, fuel_type)
    /\ pc' = "solved"
    /\ UNCHANGED <<args, value, loop,
                   subsystems, financial_params, fuel_type, confinement_type, target_lcoe,
                   breakdown>>

SolverNext ==
    \/ SolveForCapex
    \/ SolveForCapacityFactor
    \/ SolveForWacc
    \/ SolveForFixedOm
    \/ SolveForLifetime
    \/ SolveForQEng

SolverSpec == SolverInit /\ [][SolverNext]_vars

(***************************************************************************)
(* solve_for_wacc and solve_for_lifetime run one loop iteration at a time: *)
(* the call evaluates the two bounds and either returns or enters its      *)
(* loop; each pass of "for _ in range(...)" is a step; the code after the  *)
(* loop builds the result.  The inputs are those of SolverSpec.            *)
(***************************************************************************)
LoopInit == SolverInit

\* solve_for_wacc up to its loop
EnterWacc ==
    /\ pc = "request"
    /\ solver' = "solve_for_wacc"
    /\ IF wacc_enters_loop(target_lcoe,
             lcoe_at_wacc(Dec(1, -2), captured_costs(subsystems, financial_params, fuel_type)),
             lcoe_at_wacc(Dec(25, -2), captured_costs(subsystems, financial_params, fuel_type)))
         THEN /\ loop' = Bisection(Dec(1, -2), Dec(25, -2), Zero, FALSE, 0, FALSE)
              /\ pc' = "loop"
              /\ result' = result
         ELSE /\ result' = solve_for_wacc(target_lcoe, subsystems, financial_params, fuel_type)
              /\ pc' = "solved"
              /\ loop' = loop
    /\ UNCHANGED <<args, value,
                   subsystems, financial_params, fuel_type, confinement_type, target_lcoe,
                   breakdown>>

\* one pass of solve_for_wacc's loop
WaccIteration ==
    /\ pc = "loop" /\ solver = "solve_for_wacc"
    /\ loop_continues(loop, 50)
    /\ loop' = wacc_iteration(target_lcoe,
                              captured_costs(subsystems, financial_params, fuel_type), loop)
    /\ UNCHANGED <<args, value, pc, solver, result,
                   subsystems, financial_params, fuel_type, confinement_type, target_lcoe,
                   breakdown>>

\* solve_for_wacc after its loop
WaccReturn ==
    /\ pc = "loop" /\ solver = "solve_for_wacc"
    /\ ~loop_continues(loop, 50)
    /\ result' = wacc_report(loop, financial_params.wacc)
    /\ pc' = "solved"
    /\ UNCHANGED <<args, value, solver, loop,
                   subsystems, financial_params, fuel_type, confinement_type, target_lcoe,
                   breakdown>>

\* solve_for_lifetime up to its loop
EnterLifetime ==
    /\ pc = "request"
    /\ solver' = "solve_for_lifetime"
    /\ IF lifetime_enters_loop(target_lcoe,
             lcoe_at_lifetime(60, captured_costs(subsystems, financial_params, fuel_type)),
             lcoe_at_lifetime(10, captured_costs(subsystems, financial_params, fuel_type)))
         THEN /\ loop' = Bisection(10, 60, 0, FALSE, 0, FALSE)
              /\ pc' = "loop"
              /\ result' = result
         ELSE /\ result' = solve_for_lifetime(target_lcoe, subsystems, financial_params,
                                              fuel_type)
              /\ pc' = "solved"
              /\ loop' = loop
    /\ UNCHANGED <<args, value,
                   subsystems, financial_params, fuel_type, confinement_type, target_lcoe,
                   breakdown>>

\* one pass of solve_for_lifetime's loop
LifetimeIteration ==
    /\ pc = "loop" /\ solver = "solve_for_lifetime"
    /\ loop_continues(loop, 20)
    /\ loop' = lifetime_iteration(target_lcoe,
                                  captured_costs(subsystems, financial_params, fuel_type),
                                  loop)
    /\ UNCHANGED <<args, value, pc, solver, result,
                   subsystems, financial_params, fuel_type, confinement_type, target_lcoe,
                   breakdown>>

\* solve_for_lifetime after its loop
LifetimeReturn ==
    /\ pc = "loop" /\ solver = "solve_for_lifetime"
    /\ ~loop_continues(loop, 20)
    /\ result' = lifetime_report(loop, financial_params.lifetime)
    /\ pc' = "solved"
    /\ UNCHANGED <<args, value, solver, loop,
                   subsystems, financial_params, fuel_type, confinement_type, target_lcoe,
                   breakdown>>

LoopNext ==
    \/ EnterWacc
    \/ WaccIteration
    \/ WaccReturn
    \/ EnterLifetime
    \/ LifetimeIteration
    \/ LifetimeReturn

LoopSpec == LoopInit /\ [][LoopNext]_vars

(***************************************************************************)
(* calculate_crf, q_eng_multiplier and get_feasibility_status, called      *)
(* directly as in tests/test_lcoe_calculator.py.  args is the record of    *)
(* the call's arguments.  The rates are 0, a rate below the spacing of the *)
(* floats at 1, and rates across [0.01, 0.25]; the lifetimes span          *)
(* [10, 60] and two shorter ones; the Q values lie on both sides of 1,     *)
(* across (1, 50] and far above it.                                        *)
(***************************************************************************)
NumRateSamples == 11
NumLifetimeSamples == 9
NumAccountSamples == 5
NumQSamples == 12
NumLcoeSamples == 10
NumStatusTargets == 6

RateSamples ==
    << Zero, Dec(1, -17), Dec(1, -2), Dec(3, -2), Dec(5, -2), Dec(8, -2), Dec(1, -1),
       Dec(15, -2), Dec(2, -1), Dec(25, -2), Dec(-5, -2), Dec(12, -2) >>

LifetimeSamples == << 10, 20, 30, 40, 50, 59, 60, 1, 5, 25 >>

\* "99" is an account Q_SCALING_FACTORS has no entry for
AccountSamples == << "22.1.1", "22.1.3", "23", "24-26", "99", "22.5" >>

QSamples ==
    << FromInt(5), FromInt(50), FromInt(2), Dec(15, -1), Dec(101, -2), FromInt(10),
       Dec(4999, -2), FromInt(1), Dec(5, -1), Zero, FromInt(-1), Dec(1, 17), FromInt(20) >>

LcoeSamples ==
    << FromInt(8), FromInt(12), FromInt(20), FromInt(10), FromInt(15), Dec(1501, -2), Zero,
       Inf, NaN, FromInt(1), FromInt(150) >>

StatusTargets == << FromInt(10), FromInt(1), FromInt(100), Zero, FromInt(-5), Inf, NaN >>

FunctionInit ==
    /\ subsystems = << >>
    /\ financial_params = DefaultParams
    /\ fuel_type = "D-T"
    /\ confinement_type = "MCF"
    /\ target_lcoe = FromInt(10)
    /\ pc = "request"
    /\ breakdown = NoBreakdown
    /\ solver = ""
    /\ result = NoResult
    /\ value = Zero
    /\ loop = NoLoop
    /\ \/ args \in [wacc : {RateSamples[i] : i \in 1..NumRateSamples},
                     lifetime : {LifetimeSamples[i] : i \in 1..NumLifetimeSamples}]
       \/ args \in [account : {AccountSamples[i] : i \in 1..NumAccountSamples},
                     q_eng : {QSamples[i] : i \in 1..NumQSamples}]
       \/ args \in [calculated_lcoe : {LcoeSamples[i] : i \in 1..NumLcoeSamples},
                     target_lcoe : {StatusTargets[i] : i \in 1..NumStatusTargets}]

\* value = calculate_crf(wacc, lifetime)
CalculateCrf ==
    /\ pc = "request"
    /\ DOMAIN args = {"wacc", "lifetime"}
    /\ solver' = "calculate_crf"
    /\ value' = calculate_crf(args.wacc, args.lifetime)
    /\ pc' = "returned"
    /\ UNCHANGED <<args, loop, result,
                   subsystems, financial_params, fuel_type, confinement_type, target_lcoe,
                   breakdown>>

\* value = q_eng_multiplier(account, q_eng)
QEngMultiplier ==
    /\ pc = "request"
    /\ DOMAIN args = {"account", "q_eng"}
    /\ solver' = "q_eng_multiplier"
    /\ value' = q_eng_multiplier(args.account, args.q_eng)
    /\ pc' = "returned"
    /\ UNCHANGED <<args, loop, result,
                   subsystems, financial_params, fuel_type, confinement_type, target_lcoe,
                   breakdown>>

\* value = get_feasibility_status(calculated_lcoe, target_lcoe)
GetFeasibilityStatus ==
    /\ pc = "request"
    /\ DOMAIN args = {"calculated_lcoe", "target_lcoe"}
    /\ solver' = "get_feasibility_status"
    /\ value' = get_feasibility_status(args.calculated_lcoe, args.target_lcoe)
    /\ pc' = "returned"
    /\ UNCHANGED <<args, loop, result,
                   subsystems, financial_params, fuel_type, confinement_type, target_lcoe,
                   breakdown>>

FunctionNext ==
    \/ CalculateCrf
    \/ QEngMultiplier
    \/ GetFeasibilityStatus

FunctionSpec == FunctionInit /\ [][FunctionNext]_vars

(***************************************************************************)
(* The claims about the constraint tables, apply_constraints and           *)
(* calculate_lcoe, checked under Spec.                                     *)
(***************************************************************************)
Accounts(subs) == {subs[i].account : i \in 1..Len(subs)}
ActiveAccounts(subs) == {subs[i].account : i \in {j \in 1..Len(subs) : ~subs[j].disabled}}
HasDisabled(subs) == \E i \in 1..Len(subs) : subs[i].disabled
HasActive(subs) == \E i \in 1..Len(subs) : ~subs[i].disabled

\* the list without its i-th element
RemoveAt(subs, i) == [j \in 1..(Len(subs) - 1) |-> IF j < i THEN subs[j] ELSE subs[j + 1]]

\* the aggregates of a breakdown
Aggregates(b) == <<b.raised, b.capital_contribution, b.fixed_om_contribution,
                   b.variable_om_contribution, b.total_lcoe>>

\* the sum of the four rounded components as the caller adds them
ComponentSum(b) == FAdd(FAdd(FAdd(b.capital_contribution, b.fixed_om_contribution),
                             b.variable_om_contribution), b.fuel_contribution)

\* |x - y| <= tol
FWithin(x, y, tol) == FLe(FAbs(FSub(x, y)), tol)

\* C1: for every fuel type and confinement type the combined required set and the
\* combined disabled set are disjoint, and after apply_constraints no subsystem is
\* both required and disabled.
C1_RequiredDisabledDisjoint ==
    /\ \A f \in FuelType, c \in ConfinementType :
          (get_fuel_constraints(f).required_subsystems
             \cup get_confinement_constraints(c).required_subsystems)
          \cap (get_fuel_constraints(f).disabled_subsystems
                  \cup get_confinement_constraints(c).disabled_subsystems) = {}
    /\ pc = "annotated" =>
          \A i \in 1..Len(subsystems) : ~(subsystems[i].required /\ subsystems[i].disabled)

C1_Witness ==
    /\ pc = "annotated"
    /\ \E i \in 1..Len(subsystems) : subsystems[i].required
    /\ \E i \in 1..Len(subsystems) : subsystems[i].disabled

\* C2 as amended: for valid financial parameters the four rounded components of
\* calculate_lcoe sum to the returned total_lcoe within 0.02 in absolute terms.
C2_ComponentsSumWithinTwoCents ==
    (pc = "lcoe" /\ ValidParams(financial_params)) =>
        /\ ~breakdown.raised
        /\ FWithin(ComponentSum(breakdown), breakdown.total_lcoe, Dec(2, -2))

C2_Witness ==
    /\ pc = "lcoe" /\ ValidParams(financial_params)
    /\ FGt(breakdown.capital_contribution, Zero)
    /\ FGt(breakdown.fixed_om_contribution, Zero)
    /\ FGt(breakdown.variable_om_contribution, Zero)
    /\ ~FEq(ComponentSum(breakdown), breakdown.total_lcoe)

\* C2 as stated: for valid financial parameters the four rounded components sum to
\* the returned total_lcoe within 1% of it.
C2_ComponentsSumWithinOnePercent ==
    (pc = "lcoe" /\ ValidParams(financial_params)) =>
        /\ ~breakdown.raised
        /\ FWithin(ComponentSum(breakdown), breakdown.total_lcoe,
                   FMul(Dec(1, -2), FAbs(breakdown.total_lcoe)))

\* C3: the key sets of subsystem_capital and of subsystem_om in the returned
\* breakdown are exactly the accounts of the subsystems that are not disabled.
C3_AttributionKeysAreActiveAccounts ==
    (pc = "lcoe" /\ ~breakdown.raised) =>
        /\ DOMAIN breakdown.subsystem_capital = ActiveAccounts(subsystems)
        /\ DOMAIN breakdown.subsystem_om = ActiveAccounts(subsystems)

C3_Witness ==
    /\ pc = "lcoe" /\ ~breakdown.raised
    /\ HasDisabled(subsystems) /\ HasActive(subsystems)
    /\ DOMAIN breakdown.subsystem_om # {}
    /\ DOMAIN breakdown.subsystem_om # Accounts(subsystems)

\* C4: calculate_lcoe on a list holding a disabled subsystem returns the same capital,
\* fixed O&M, variable O&M and total as on the list with that subsystem removed.
C4_DisabledContributesNothing ==
    pc = "lcoe" =>
        \A i \in 1..Len(subsystems) :
            subsystems[i].disabled =>
                Aggregates(calculate_lcoe(RemoveAt(subsystems, i), financial_params, fuel_type))
                    = Aggregates(breakdown)

C4_Witness ==
    /\ pc = "lcoe" /\ ~breakdown.raised
    /\ FGt(breakdown.total_lcoe, Zero)
    /\ \E i \in 1..Len(subsystems) :
          /\ subsystems[i].disabled
          /\ FGt(subsystems[i].absolute_capital_cost, Zero)
          /\ FGt(subsystems[i].variable_om, Zero)

C6_CalculateNeverRaises ==
    pc = "lcoe" => ~breakdown.raised

(***************************************************************************)
(* The claims about the solvers, checked under SolverSpec.                 *)
(***************************************************************************)
\* |x - y| <= fraction * |y|, and the same with <
FWithinRel(x, y, fraction) == FLe(FAbs(FSub(x, y)), FMul(fraction, FAbs(y)))
FStrictlyWithinRel(x, y, fraction) == FLt(FAbs(FSub(x, y)), FMul(fraction, FAbs(y)))

\* calculate_lcoe with the solved value in place of the parameter solved for
WaccRoundTrip ==
    calculate_lcoe(subsystems, [financial_params EXCEPT !.wacc = result.required_value],
                   fuel_type)
QEngRoundTrip ==
    calculate_lcoe(subsystems, [financial_params EXCEPT !.q_eng = result.required_value],
                   fuel_type)

\* a value the claim calls a sentinel: 0, +infinity, or an end of a solver's range
SentinelValue(x) ==
    \/ x = Inf
    \/ \E b \in {Zero, Dec(1, -2), Dec(25, -2), FromInt(10), FromInt(60), Dec(15, -1),
                 FromInt(50), Dec(5, -1), FromInt(1)} : FEq(x, b)

\* C7 as stated, for the two malformed combinations it names outright: with zero plant
\* capacity or Q_eng <= 1 every solver returns, without raising, a result with
\* feasible = false, an explanation and a sentinel required_value.
C7_MalformedGivesInfeasibleSentinel ==
    (pc = "solved" /\ (FLe(financial_params.capacity_mw, Zero)
                         \/ FLe(financial_params.q_eng, FromInt(1)))) =>
        /\ ~result.raised
        /\ ~result.feasible
        /\ result.explanation # ""
        /\ SentinelValue(result.required_value)

WaccSolvedInside ==
    /\ pc = "solved" /\ solver = "solve_for_wacc"
    /\ ~result.raised /\ result.feasible
    /\ FLt(Dec(1, -2), result.required_value) /\ FLt(result.required_value, Dec(25, -2))

\* C8 as amended: whenever solve_for_wacc, called with validated financial parameters
\* and a target of at least 1.0 $/MWh, returns feasible = true with
\* 0.01 < required_value < 0.25, calculate_lcoe with wacc replaced by the returned value
\* yields a total_lcoe within 5% of the target.
C8_WaccRoundTripFromOneDollar ==
    (WaccSolvedInside /\ ValidParams(financial_params) /\ FGe(target_lcoe, FromInt(1))) =>
        /\ ~WaccRoundTrip.raised
        /\ FStrictlyWithinRel(WaccRoundTrip.total_lcoe, target_lcoe, Dec(5, -2))

C8_Witness ==
    /\ WaccSolvedInside /\ ValidParams(financial_params) /\ FGe(target_lcoe, FromInt(1))
    /\ FGt(WaccRoundTrip.total_lcoe, Zero)
    /\ ~FEq(WaccRoundTrip.total_lcoe, target_lcoe)

\* C8 as stated: whenever solve_for_wacc returns feasible = true with
\* 0.01 < required_value < 0.25, calculate_lcoe with wacc replaced by the returned value
\* yields a total_lcoe within 5% of the target.
C8_WaccRoundTrip ==
    WaccSolvedInside =>
        /\ ~WaccRoundTrip.raised
        /\ FWithinRel(WaccRoundTrip.total_lcoe, target_lcoe, Dec(5, -2))

QEngSolvedFrom(lowest) ==
    /\ pc = "solved" /\ solver = "solve_for_q_eng"
    /\ ~result.raised /\ result.feasible
    /\ FLe(lowest, result.required_value) /\ FLe(result.required_value, FromInt(50))

\* C9 as amended: whenever solve_for_q_eng, called with validated financial parameters
\* and a target of at least 1.0 $/MWh, returns feasible = true with
\* 1.7 <= required_value <= 50, calculate_lcoe with q_eng replaced by the returned value
\* yields a total_lcoe within 5% of the target.
C9_QEngRoundTripFromOnePointSeven ==
    (QEngSolvedFrom(Dec(17, -1)) /\ ValidParams(financial_params)
       /\ FGe(target_lcoe, FromInt(1))) =>
        /\ ~QEngRoundTrip.raised
        /\ FStrictlyWithinRel(QEngRoundTrip.total_lcoe, target_lcoe, Dec(5, -2))

C9_Witness ==
    /\ QEngSolvedFrom(Dec(17, -1)) /\ ValidParams(financial_params)
    /\ FGe(target_lcoe, FromInt(1))
    /\ FLt(result.required_value, FromInt(3))
    /\ ~FEq(QEngRoundTrip.total_lcoe, target_lcoe)

\* C9 as stated: whenever solve_for_q_eng returns feasible = true with
\* 1.5 <= required_value <= 50, calculate_lcoe with q_eng replaced by the returned value
\* yields a total_lcoe within 5% of the target.
C9_QEngRoundTrip ==
    QEngSolvedFrom(Dec(15, -1)) =>
        /\ ~QEngRoundTrip.raised
        /\ FWithinRel(QEngRoundTrip.total_lcoe, target_lcoe, Dec(5, -2))

\* C10: whenever target_lcoe <= the sum of the variable O&M of the subsystems that are
\* not disabled, solve_for_capacity_factor returns, without raising, feasible = false
\* with required_value = +infinity.
C10_NoHeadroomGivesInfinity ==
    (pc = "solved" /\ solver = "solve_for_capacity_factor"
       /\ FLe(target_lcoe, sum_variable_om(subsystems, Len(subsystems)))) =>
        /\ ~result.raised
        /\ ~result.feasible
        /\ result.required_value = Inf

C10_Witness ==
    /\ pc = "solved" /\ solver = "solve_for_capacity_factor"
    /\ FEq(target_lcoe, sum_variable_om(subsystems, Len(subsystems)))
    /\ FGt(target_lcoe, Zero)
    /\ result.required_value = Inf /\ ~result.feasible

(***************************************************************************)
(* The claims about calculate_crf, q_eng_multiplier and                    *)
(* get_feasibility_status, checked under FunctionSpec.                     *)
(***************************************************************************)
CrfReturned == pc = "returned" /\ solver = "calculate_crf"

\* C11: calculate_crf(0, n) returns, without a division by zero, exactly the float 1/n
\* for every lifetime n of at least one year.
C11_ZeroRateGivesReciprocal ==
    (CrfReturned /\ args.wacc = Zero /\ args.lifetime >= 1) =>
        /\ ~IsErr(value)
        /\ value = FDiv(FromInt(1), FromInt(args.lifetime))
        /\ FWithin(FMul(value, FromInt(args.lifetime)), FromInt(1), Dec(1, -7))

C11_Witness ==
    /\ CrfReturned /\ args.wacc = Zero /\ args.lifetime = 40
    /\ value = Dec(25, -3)

\* the rates and lifetimes of the samples that lie in the claim's ranges
RatesInRange ==
    {RateSamples[i] : i \in {j \in 1..NumRateSamples :
        FGt(RateSamples[j], Zero) /\ FLe(RateSamples[j], Dec(25, -2))}}
LifetimesInRange ==
    {LifetimeSamples[i] : i \in {j \in 1..NumLifetimeSamples :
        LifetimeSamples[j] >= 10 /\ LifetimeSamples[j] <= 60}}

\* C12 as stated: for all r in (0, 0.25] and n in [10, 60], calculate_crf(r, n) returns a
\* value > 0 that is below the value at every larger r in the range (same n) and above
\* the value at every larger n in the range (same r).
C12_CrfPositiveAndMonotone ==
    (CrfReturned /\ args.wacc \in RatesInRange /\ args.lifetime \in LifetimesInRange) =>
        /\ FGt(value, Zero)
        /\ \A r \in RatesInRange :
               FLt(args.wacc, r) => FLt(value, calculate_crf(r, args.lifetime))
        /\ \A n \in LifetimesInRange :
               args.lifetime < n => FGt(value, calculate_crf(args.wacc, n))

MultiplierReturned == pc = "returned" /\ solver = "q_eng_multiplier"

\* the accounts whose Q-scaling flag is set: those Q_SCALING_FACTORS maps to 1.0
Flagged(account) == account \in DOMAIN Q_SCALING_FACTORS /\ account # "24-26"

QInRange ==
    {QSamples[i] : i \in {j \in 1..NumQSamples :
        FGt(QSamples[j], FromInt(1)) /\ FLe(QSamples[j], FromInt(50))}}
QAboveOne == {QSamples[i] : i \in {j \in 1..NumQSamples : FGt(QSamples[j], FromInt(1))}}

\* C14 as amended: for every account whose Q-scaling flag is set, q_eng_multiplier
\* equals Q/(Q-1) when Q > 1 (5/4 at Q = 5, 50/49 at Q = 50) and +infinity when Q <= 1;
\* for 1 < Q <= 50 it is strictly greater than 1, and strictly smaller at any Q' in that
\* range with Q' >= Q + 0.01.
C14_FlaggedMultiplierUpToFifty ==
    (MultiplierReturned /\ Flagged(args.account)) =>
        /\ FGt(args.q_eng, FromInt(1)) =>
               value = FDiv(args.q_eng, FSub(args.q_eng, FromInt(1)))
        /\ args.q_eng = FromInt(5) => value = Dec(125, -2)
        /\ args.q_eng = FromInt(50) => value = FDiv(FromInt(50), FromInt(49))
        /\ FLe(args.q_eng, FromInt(1)) => value = Inf
        /\ args.q_eng \in QInRange =>
               /\ FGt(value, FromInt(1))
               /\ \A q \in QInRange :
                      FGe(q, FAdd(args.q_eng, Dec(1, -2))) =>
                          FGt(value, q_eng_multiplier(args.account, q))

C14_Witness ==
    /\ MultiplierReturned /\ Flagged(args.account)
    /\ args.q_eng = Dec(4999, -2)
    /\ FGt(value, q_eng_multiplier(args.account, FromInt(50)))

\* C14 as stated: for every account whose Q-scaling flag is set, q_eng_multiplier equals
\* Q/(Q-1) when Q > 1, is strictly greater than 1 and strictly decreasing in Q, and equals
\* +infinity when Q <= 1.
C14_FlaggedMultiplier ==
    (MultiplierReturned /\ Flagged(args.account)) =>
        /\ FLe(args.q_eng, FromInt(1)) => value = Inf
        /\ FGt(args.q_eng, FromInt(1)) =>
               /\ value = FDiv(args.q_eng, FSub(args.q_eng, FromInt(1)))
               /\ FGt(value, FromInt(1))
               /\ \A q \in QAboveOne :
                      FGt(q, args.q_eng) => FGt(value, q_eng_multiplier(args.account, q))

StatusReturned == pc = "returned" /\ solver = "get_feasibility_status"

\* C17: get_feasibility_status(calculated, target) returns "red" for every target that
\* is not positive; for a positive target it returns "green" exactly when
\* calculated/target <= 1.0, "yellow" exactly when 1.0 < calculated/target <= 1.5, and
\* "red" otherwise.
C17_StatusFollowsRatio ==
    StatusReturned =>
        /\ value[1] \in {"green", "yellow", "red"}
        /\ ~FGt(args.target_lcoe, Zero) => value[1] = "red"
        /\ FGt(args.target_lcoe, Zero) =>
               /\ value[1] = "green" <=>
                      FLe(FDiv(args.calculated_lcoe, args.target_lcoe), FromInt(1))
               /\ value[1] = "yellow" <=>
                      /\ FGt(FDiv(args.calculated_lcoe, args.target_lcoe), FromInt(1))
                      /\ FLe(FDiv(args.calculated_lcoe, args.target_lcoe), Dec(15, -1))

C17_Witness ==
    /\ StatusReturned
    /\ args.calculated_lcoe = FromInt(10) /\ args.target_lcoe = FromInt(10)
    /\ value[1] = "green"

(***************************************************************************)
(* The claims that compare two calls of calculate_lcoe, checked under      *)
(* Spec: breakdown is the result of the call made, and the other call is   *)
(* the same call with one input changed.                                   *)
(***************************************************************************)
\* capacity factors of the validated range [0.5, 1.0] to compare with
HigherCapacityFactors == {Dec(6, -1), Dec(9001, -4), Dec(95, -2), FromInt(1)}

\* calculate_lcoe with only the capacity factor replaced
AtCapacityFactor(cf) ==
    calculate_lcoe(subsystems, [financial_params EXCEPT !.capacity_factor = cf], fuel_type)

\* the capital and fixed O&M contributions of a breakdown, which are those the capacity
\* factor divides
EnergyDivided(b) == FAdd(b.capital_contribution, b.fixed_om_contribution)

\* C15 as amended: with validated financial parameters, for any subsystem list and fuel
\* type and all other parameters fixed, a lower capacity factor never gives a lower
\* total_lcoe than a higher one, and it gives a strictly higher one whenever the two
\* capacity factors differ by at least 0.01 and the capital and fixed O&M contributions
\* at the higher capacity factor sum to at least 2.00 $/MWh.
C15_LowerCapacityFactorNeverCheaper ==
    (pc = "lcoe" /\ ValidParams(financial_params)) =>
        /\ ~breakdown.raised
        /\ \A cf \in HigherCapacityFactors :
               FGt(cf, financial_params.capacity_factor) =>
                   /\ ~AtCapacityFactor(cf).raised
                   /\ FGe(breakdown.total_lcoe, AtCapacityFactor(cf).total_lcoe)
                   /\ (/\ FGe(FSub(cf, financial_params.capacity_factor), Dec(1, -2))
                       /\ FGe(EnergyDivided(AtCapacityFactor(cf)), FromInt(2)))
                      => FGt(breakdown.total_lcoe, AtCapacityFactor(cf).total_lcoe)

C15_Witness ==
    /\ pc = "lcoe" /\ ValidParams(financial_params) /\ HasActive(subsystems)
    /\ financial_params.capacity_factor = Dec(9, -1)
    /\ FGe(EnergyDivided(AtCapacityFactor(Dec(95, -2))), FromInt(2))
    /\ FGt(breakdown.total_lcoe, AtCapacityFactor(Dec(95, -2)).total_lcoe)

\* C15 as stated: for any subsystem list and fuel type, with all other financial
\* parameters fixed, a lower capacity factor gives a strictly higher total_lcoe than a
\* higher capacity factor.
C15_LowerCapacityFactorCostsMore ==
    (pc = "lcoe" /\ ValidParams(financial_params)) =>
        \A cf \in HigherCapacityFactors :
            FGt(cf, financial_params.capacity_factor) =>
                /\ ~breakdown.raised /\ ~AtCapacityFactor(cf).raised
                /\ FGt(breakdown.total_lcoe, AtCapacityFactor(cf).total_lcoe)

\* rises of an absolute capital cost, in $M
CapitalRises == {Dec(1, -3), FromInt(100)}

\* calculate_lcoe with the absolute capital cost of subsystem i raised by rise
WithCapitalRaised(i, rise) ==
    calculate_lcoe([subsystems EXCEPT ![i].absolute_capital_cost = FAdd(@, rise)],
                   financial_params, fuel_type)

\* C16 as amended: with validated financial parameters and the fuel type fixed, raising
\* the absolute capital cost of a non-disabled subsystem never gives a lower total_lcoe,
\* and it gives a strictly higher one whenever the reported capital_contribution rises
\* by at least 0.02 $/MWh.
C16_HigherCapitalNeverCheaper ==
    (pc = "lcoe" /\ ValidParams(financial_params)) =>
        \A i \in 1..Len(subsystems), rise \in CapitalRises :
            ~subsystems[i].disabled =>
                /\ ~WithCapitalRaised(i, rise).raised
                /\ FGe(WithCapitalRaised(i, rise).total_lcoe, breakdown.total_lcoe)
                /\ FGe(FSub(WithCapitalRaised(i, rise).capital_contribution,
                            breakdown.capital_contribution), Dec(2, -2))
                   => FGt(WithCapitalRaised(i, rise).total_lcoe, breakdown.total_lcoe)

C16_Witness ==
    /\ pc = "lcoe" /\ ValidParams(financial_params)
    /\ \E i \in 1..Len(subsystems) :
           /\ ~subsystems[i].disabled
           /\ FGe(FSub(WithCapitalRaised(i, FromInt(100)).capital_contribution,
                       breakdown.capital_contribution), Dec(2, -2))
           /\ FGt(WithCapitalRaised(i, FromInt(100)).total_lcoe, breakdown.total_lcoe)

\* C16 as stated: with financial parameters and fuel type fixed, raising the absolute
\* capital cost of a non-disabled subsystem gives a strictly higher total_lcoe.
C16_HigherCapitalCostsMore ==
    (pc = "lcoe" /\ ValidParams(financial_params)) =>
        \A i \in 1..Len(subsystems), rise \in CapitalRises :
            ~subsystems[i].disabled =>
                /\ ~WithCapitalRaised(i, rise).raised
                /\ FGt(WithCapitalRaised(i, rise).total_lcoe, breakdown.total_lcoe)

(***************************************************************************)
(* Further claims about solve_for_wacc, checked under SolverSpec.          *)
(***************************************************************************)
WaccReturned == pc = "solved" /\ solver = "solve_for_wacc" /\ ~result.raised

\* C18 as amended: for every result of solve_for_wacc, a returned required_value below
\* 0.03 is never reported feasible and a returned required_value above 0.03 always is;
\* a returned required_value of exactly 0.03 is feasible or not according to whether the
\* solved rate was at least 0.03 before it was rounded to 3 decimals.
C18_FeasibleFromThreePercent ==
    WaccReturned =>
        /\ FLt(result.required_value, Dec(3, -2)) => ~result.feasible
        /\ FGt(result.required_value, Dec(3, -2)) => result.feasible
        /\ result.feasible => FGe(result.required_value, Dec(3, -2))

C18_Witness ==
    /\ WaccReturned /\ ValidParams(financial_params)
    /\ FEq(result.required_value, Dec(3, -2)) /\ ~result.feasible

\* C18 as stated: for every result of solve_for_wacc, feasible is true exactly when the
\* returned required_value is >= 0.03.
C18_FeasibleIffThreePercent ==
    WaccReturned => (result.feasible <=> FGe(result.required_value, Dec(3, -2)))

(***************************************************************************)
(* The claims about the bounds checks and the loops of solve_for_wacc and  *)
(* solve_for_lifetime, checked under LoopSpec.                             *)
(***************************************************************************)
\* LCOE at r = 0.01 and at r = 0.25 for the call's arguments
LcoeAtLowestRate ==
    lcoe_at_wacc(Dec(1, -2), captured_costs(subsystems, financial_params, fuel_type))
LcoeAtHighestRate ==
    lcoe_at_wacc(Dec(25, -2), captured_costs(subsystems, financial_params, fuel_type))

\* C19: when solve_for_wacc returns, then if LCOE(0.01) > target it has returned
\* required_value 0 with feasible = false; otherwise if LCOE(0.25) < target it has
\* returned required_value 0.25 with feasible = true; in both cases no loop iteration
\* has run; and in every case the returned required_value lies in [0, 0.25].
C19_BoundsCheckedBeforeSearch ==
    WaccReturned =>
        /\ FGt(LcoeAtLowestRate, target_lcoe) =>
               /\ result.required_value = Zero /\ ~result.feasible
               /\ loop.iterations = 0
        /\ (~FGt(LcoeAtLowestRate, target_lcoe) /\ FLt(LcoeAtHighestRate, target_lcoe)) =>
               /\ result.required_value = Dec(25, -2) /\ result.feasible
               /\ loop.iterations = 0
        /\ FGe(result.required_value, Zero) /\ FLe(result.required_value, Dec(25, -2))

C19_Witness ==
    /\ WaccReturned /\ ValidParams(financial_params) /\ HasActive(subsystems)
    /\ FLt(LcoeAtHighestRate, target_lcoe)
    /\ result.required_value = Dec(25, -2) /\ result.feasible
    /\ loop.iterations = 0

\* the value each solver returns for the midpoint its loop computed last
ReturnedForMidpoint ==
    IF solver = "solve_for_wacc" THEN FRound(loop.mid, 3) ELSE FromInt(loop.mid)

\* C20: solve_for_wacc never runs more than 50 loop iterations and solve_for_lifetime
\* never more than 20, whatever the target and the inputs; every step of a call that is
\* in its loop either uses up one of those iterations or returns, so the call leaves the
\* loop after at most that many steps, also when the tolerance is never reached or the
\* integer midpoint stops moving; and a call that ran its loop returns the last midpoint
\* computed.
C20_BisectionsTerminate ==
    /\ [](solver = "solve_for_wacc" => loop.iterations <= 50)
    /\ [](solver = "solve_for_lifetime" => loop.iterations <= 20)
    /\ [][pc = "loop" => (pc' = "solved" \/ loop'.iterations = loop.iterations + 1)]_vars
    /\ []((pc = "solved" /\ loop.iterations > 0 /\ ~result.raised) =>
             result.required_value = ReturnedForMidpoint)

C20_Witness ==
    /\ pc = "solved" /\ solver = "solve_for_lifetime" /\ ~result.raised
    /\ loop.iterations = 20 /\ ~loop.done
    /\ result.required_value = FromInt(loop.mid)


(***************************************************************************)
(* The claims about the results of solve_for_lifetime, checked under       *)
(* LoopSpec.                                                               *)
(***************************************************************************)
LifetimeReturned == pc = "solved" /\ solver = "solve_for_lifetime" /\ ~result.raised

\* LCOE at 60 years and at 10 years for the call's arguments
LcoeAtLongestLifetime ==
    lcoe_at_lifetime(60, captured_costs(subsystems, financial_params, fuel_type))
LcoeAtShortestLifetime ==
    lcoe_at_lifetime(10, captured_costs(subsystems, financial_params, fuel_type))

\* C21: solve_for_lifetime returns for every call with validated financial parameters,
\* and whenever it returns, required_value is an int in [10, 60]: 60 with
\* feasible = false when LCOE at 60 years exceeds the target; otherwise 10 with
\* feasible = true when LCOE at 10 years is below the target; otherwise the midpoint
\* (low + high) // 2 its loop computed last, with feasible = true exactly when that
\* midpoint is <= 50.
C21_LifetimeResultCases ==
    (pc = "solved" /\ solver = "solve_for_lifetime") =>
        /\ ValidParams(financial_params) => ~result.raised
        /\ ~result.raised =>
            /\ result.is_int
            /\ FGe(result.required_value, FromInt(10))
            /\ FLe(result.required_value, FromInt(60))
            /\ IF FGt(LcoeAtLongestLifetime, target_lcoe)
                 THEN result.required_value = FromInt(60) /\ ~result.feasible
               ELSE IF FLt(LcoeAtShortestLifetime, target_lcoe)
                 THEN result.required_value = FromInt(10) /\ result.feasible
               ELSE /\ loop.iterations >= 1
                    /\ loop.mid \in 10..60
                    /\ result.required_value = FromInt(loop.mid)
                    /\ result.feasible <=> loop.mid <= 50

C21_Witness ==
    /\ LifetimeReturned /\ ValidParams(financial_params)
    /\ loop.iterations >= 2
    /\ loop.mid > 40 /\ loop.mid <= 50
    /\ result.required_value = FromInt(loop.mid) /\ result.feasible

\* calculate_lcoe with the returned lifetime in place of the lifetime of the call
LifetimeRoundTrip ==
    calculate_lcoe(subsystems, [financial_params EXCEPT !.lifetime = loop.mid], fuel_type)

\* C22 as stated, for calls with validated financial parameters: whenever
\* solve_for_lifetime returns feasible = true from its bisection, calculate_lcoe at the
\* returned lifetime, the other parameters unchanged, gives a total_lcoe that does not
\* exceed the target by more than 0.1.
C22_ReturnedLifetimeSuffices ==
    (LifetimeReturned /\ ValidParams(financial_params)
       /\ loop.iterations >= 1 /\ result.feasible) =>
        /\ ~LifetimeRoundTrip.raised
        /\ FLe(LifetimeRoundTrip.total_lcoe, FAdd(target_lcoe, Dec(1, -1)))

(***************************************************************************)
(* The claims about solve_for_capex, solve_for_capacity_factor,            *)
(* solve_for_fixed_om and solve_for_q_eng, checked under SolverSpec.       *)
(***************************************************************************)
CapexReturned == pc = "solved" /\ solver = "solve_for_capex" /\ ~result.raised

\* max_capex_per_kw and max_capex_abs of solve_for_capex before rounding, and its
\* current_capex_abs, for the call's arguments
SolvedCapexPerKw ==
    max_capex_per_kw_of(target_lcoe,
        calculate_crf(financial_params.wacc, financial_params.lifetime),
        energy_per_kw_year(financial_params.capacity_factor,
                           get_fuel_constraints(fuel_type).cf_modifier),
        get_fuel_constraints(fuel_type).regulatory_modifier,
        sum_fixed_om_per_kw(subsystems, financial_params, Len(subsystems)),
        sum_variable_om(subsystems, Len(subsystems)))
SolvedCapexAbs == per_kw_to_abs(SolvedCapexPerKw, financial_params.capacity_mw)
CurrentCapexAbs == sum_capex_abs(subsystems, financial_params, Len(subsystems))

WithCapitalScaled(k) ==
    [i \in 1..Len(subsystems) |->
        IF subsystems[i].disabled THEN subsystems[i]
        ELSE [subsystems[i] EXCEPT !.absolute_capital_cost = FMul(@, k)]]

\* calculate_lcoe after the capital costs are rescaled so that their Q-adjusted sum is
\* the solved capex before rounding
CapexRoundTrip ==
    calculate_lcoe(WithCapitalScaled(FDiv(SolvedCapexAbs, CurrentCapexAbs)),
                   financial_params, fuel_type)

\* C24: whenever solve_for_capex is called with validated financial parameters and a
\* list whose current Q-adjusted capex is positive, rescaling the absolute capital
\* costs of the subsystems that are not disabled by (solved capex before rounding) /
\* (current capex) makes calculate_lcoe, with the same financial parameters and fuel
\* type, return a total_lcoe less than 0.01 away from the target: the target itself
\* when the target has two decimals.
C24_CapexInvertsForwardModel ==
    (CapexReturned /\ ValidParams(financial_params) /\ FGt(CurrentCapexAbs, Zero)) =>
        /\ ~CapexRoundTrip.raised
        /\ FLt(FAbs(FSub(CapexRoundTrip.total_lcoe, target_lcoe)), Dec(1, -2))

C24_Witness ==
    /\ CapexReturned /\ ValidParams(financial_params) /\ FGt(CurrentCapexAbs, Zero)
    /\ fuel_type = "p-B11" /\ Len(subsystems) = 3
    /\ FGt(SolvedCapexAbs, Zero) /\ FLt(SolvedCapexAbs, CurrentCapexAbs)
    /\ FEq(CapexRoundTrip.total_lcoe, target_lcoe)

CapacityFactorReturned ==
    pc = "solved" /\ solver = "solve_for_capacity_factor" /\ ~result.raised

\* the target exceeds the variable O&M of the subsystems that are not disabled
TargetAboveVariableOm == FGt(target_lcoe, sum_variable_om(subsystems, Len(subsystems)))

\* required_cf of solve_for_capacity_factor before rounding, for the call's arguments
SolvedCapacityFactor ==
    required_cf_of(
        calculate_crf(financial_params.wacc, financial_params.lifetime),
        FMul(sum_capex_per_kw(subsystems, financial_params, Len(subsystems)),
             get_fuel_constraints(fuel_type).regulatory_modifier),
        sum_fixed_om_per_kw(subsystems, financial_params, Len(subsystems)),
        FDiv(FMul(FSub(target_lcoe, sum_variable_om(subsystems, Len(subsystems))),
                  FromInt(8760)), FromInt(1000)),
        get_fuel_constraints(fuel_type).cf_modifier)

\* C25: when the target exceeds the total variable O&M, solve_for_capacity_factor
\* returns the solved capacity factor rounded to 3 decimals and reports feasible = true
\* exactly when the solved capacity factor, before rounding, lies in [0.5, 0.98]; for
\* a solved value below 0.5 or above 0.98 it reports feasible = false.
C25_FeasibleWindow ==
    (CapacityFactorReturned /\ TargetAboveVariableOm) =>
        /\ result.required_value = FRound(SolvedCapacityFactor, 3)
        /\ result.feasible <=>
             (FLe(Dec(5, -1), SolvedCapacityFactor)
                /\ FLe(SolvedCapacityFactor, Dec(98, -2)))
        /\ (FLt(SolvedCapacityFactor, Dec(5, -1))
              \/ FGt(SolvedCapacityFactor, Dec(98, -2))) => ~result.feasible

C25_Witness ==
    /\ CapacityFactorReturned /\ TargetAboveVariableOm /\ ValidParams(financial_params)
    /\ FGt(SolvedCapacityFactor, Dec(98, -2)) /\ FLe(SolvedCapacityFactor, FromInt(1))
    /\ ~result.feasible

\* calculate_lcoe with the solved capacity factor, before rounding, in place of the
\* capacity factor of the call
CapacityFactorRoundTrip ==
    calculate_lcoe(subsystems,
                   [financial_params EXCEPT !.capacity_factor = SolvedCapacityFactor],
                   fuel_type)

\* C26 as amended: when the target exceeds the total variable O&M and the solved
\* capacity factor is a positive finite number, calculate_lcoe with capacity_factor set
\* to the solved value before rounding, the same fuel type and the other parameters
\* unchanged, returns a total_lcoe less than 0.01 away from the target.
C26_PositiveCapacityFactorInverts ==
    (CapacityFactorReturned /\ TargetAboveVariableOm
       /\ IsFin(SolvedCapacityFactor) /\ FGt(SolvedCapacityFactor, Zero)) =>
        /\ ~CapacityFactorRoundTrip.raised
        /\ FLt(FAbs(FSub(CapacityFactorRoundTrip.total_lcoe, target_lcoe)), Dec(1, -2))

C26_Witness ==
    /\ CapacityFactorReturned /\ TargetAboveVariableOm /\ ValidParams(financial_params)
    /\ fuel_type = "D-He3" /\ Len(subsystems) = 3
    /\ result.feasible
    /\ ~FEq(SolvedCapacityFactor, financial_params.capacity_factor)
    /\ FEq(CapacityFactorRoundTrip.total_lcoe, target_lcoe)

\* C26 as stated, for calls with validated financial parameters: when the target
\* exceeds the total variable O&M, calculate_lcoe with capacity_factor set to the solved
\* value before rounding returns the target up to the rounding of its output.
C26_CapacityFactorInverts ==
    (CapacityFactorReturned /\ TargetAboveVariableOm /\ ValidParams(financial_params)) =>
        /\ ~CapacityFactorRoundTrip.raised
        /\ FLt(FAbs(FSub(CapacityFactorRoundTrip.total_lcoe, target_lcoe)), Dec(1, -2))

FixedOmReturned == pc = "solved" /\ solver = "solve_for_fixed_om" /\ ~result.raised

\* max_fixed_om_per_kw and max_fixed_om_abs of solve_for_fixed_om before rounding, and
\* its current_fixed_om_abs, for the call's arguments
SolvedFixedOmPerKw ==
    max_fixed_om_per_kw_of(target_lcoe,
        calculate_crf(financial_params.wacc, financial_params.lifetime),
        energy_per_kw_year(financial_params.capacity_factor,
                           get_fuel_constraints(fuel_type).cf_modifier),
        FMul(sum_capex_per_kw(subsystems, financial_params, Len(subsystems)),
             get_fuel_constraints(fuel_type).regulatory_modifier),
        sum_variable_om(subsystems, Len(subsystems)))
SolvedFixedOmAbs == per_kw_to_abs(SolvedFixedOmPerKw, financial_params.capacity_mw)
CurrentFixedOmAbs == sum_fixed_om_abs(subsystems, financial_params, Len(subsystems))

\* the list with the absolute_fixed_om of every subsystem that is not disabled
\* multiplied by k
WithFixedOmScaled(k) ==
    [i \in 1..Len(subsystems) |->
        IF subsystems[i].disabled THEN subsystems[i]
        ELSE [subsystems[i] EXCEPT !.absolute_fixed_om = FMul(@, k)]]

\* calculate_lcoe after the fixed O&M is rescaled so that its Q-adjusted sum is the
\* solved fixed O&M before rounding
FixedOmRoundTrip ==
    calculate_lcoe(WithFixedOmScaled(FDiv(SolvedFixedOmAbs, CurrentFixedOmAbs)),
                   financial_params, fuel_type)

QEngSplit == q_split(subsystems, financial_params.capacity_mw, Len(subsystems))
QEngCrf == calculate_crf(financial_params.wacc, financial_params.lifetime)
QEngHeadroom ==
    FMul(FSub(target_lcoe, sum_variable_om(subsystems, Len(subsystems))),
         energy_per_kw_year(financial_params.capacity_factor,
                            get_fuel_constraints(fuel_type).cf_modifier))
QScalingCost ==
    FAdd(FMul(FMul(QEngCrf, QEngSplit.capex_q),
              get_fuel_constraints(fuel_type).regulatory_modifier), QEngSplit.om_q)
NonQScalingCost ==
    FAdd(FMul(FMul(QEngCrf, QEngSplit.capex_no_q),
              get_fuel_constraints(fuel_type).regulatory_modifier), QEngSplit.om_no_q)
QEngRatio == FDiv(FSub(QEngHeadroom, NonQScalingCost), QScalingCost)
QEngSolved == FDiv(QEngRatio, FSub(QEngRatio, FromInt(1)))

\* the ordered case analysis of C28 on a result
QEngCases ==
    IF FLe(QEngHeadroom, NonQScalingCost)
      THEN ~result.feasible /\ result.required_value = Inf
    ELSE IF FLe(QScalingCost, Zero)
      THEN result.feasible /\ result.required_value = Dec(15, -1)
    ELSE IF FLe(QEngRatio, FromInt(1))
      THEN ~result.feasible /\ result.required_value = Inf
    ELSE /\ result.required_value = FRound(QEngSolved, 1)
         /\ result.feasible <=>
              (FLe(Dec(15, -1), QEngSolved) /\ FLe(QEngSolved, FromInt(50)))

\* C28 as stated, for calls with validated financial parameters: solve_for_q_eng
\* returns a result, and the result follows the ordered case analysis: a <= c_nq gives
\* feasible = false with +infinity whatever c_q is; else c_q <= 0 gives feasible = true
\* with 1.5; else r = (a - c_nq) / c_q <= 1 gives feasible = false with +infinity; else
\* Q = r / (r - 1) is returned, rounded to 1 decimal, with feasible = true exactly when
\* 1.5 <= Q <= 50.
C28_QEngCaseAnalysis ==
    (pc = "solved" /\ solver = "solve_for_q_eng" /\ ValidParams(financial_params)) =>
        /\ ~result.raised
        /\ QEngCases

\* every result solve_for_q_eng does return follows the case analysis
QEngReturnedFollowsCases ==
    (pc = "solved" /\ solver = "solve_for_q_eng" /\ ~result.raised) => QEngCases

(***************************************************************************)
(* The claims about apply_constraints and about the regulatory modifier in *)
(* calculate_lcoe, checked under Spec.                                     *)
(***************************************************************************)
\* the required and the disabled accounts of a selection
RequiredFor(f, c) ==
    get_fuel_constraints(f).required_subsystems
      \cup get_confinement_constraints(c).required_subsystems
DisabledFor(f, c) ==
    get_fuel_constraints(f).disabled_subsystems
      \cup get_confinement_constraints(c).disabled_subsystems

\* the fields of a record other than its flags
Unflagged(sub) ==
    <<sub.account, sub.absolute_capital_cost, sub.absolute_fixed_om, sub.variable_om>>

\* C29: after any sequence of fuel and confinement selections applied one after another
\* to a list, every subsystem's required and disabled flags are the membership of its
\* account in the required and the disabled set of the latest selection, whatever flags
\* the record carried before; the list has the length, the order, the accounts and the
\* cost fields of the list passed; and the call leaves the list passed as it was.
C29_PureReannotation ==
    /\ [](pc = "annotated" =>
            /\ Len(subsystems) = Len(args.subsystems)
            /\ \A i \in 1..Len(subsystems) :
                 /\ subsystems[i].required
                      = (subsystems[i].account \in RequiredFor(fuel_type, confinement_type))
                 /\ subsystems[i].disabled
                      = (subsystems[i].account \in DisabledFor(fuel_type, confinement_type))
                 /\ Unflagged(subsystems[i]) = Unflagged(args.subsystems[i]))
    /\ [][pc' = "annotated" => args'.subsystems = subsystems]_vars

C29_Witness ==
    /\ pc = "annotated" /\ Len(subsystems) = 2
    /\ \E i \in 1..Len(subsystems) :
         /\ args.subsystems[i].required /\ ~args.subsystems[i].disabled
         /\ ~subsystems[i].required /\ subsystems[i].disabled
    /\ \E i \in 1..Len(subsystems) :
         /\ args.subsystems[i].disabled /\ ~subsystems[i].disabled

\* the sum of the values of a dict
RECURSIVE SumDict(_, _)
SumDict(d, keys) ==
    IF keys = {} THEN Zero
    ELSE FAdd(SumDict(d, keys \ {CHOOSE a \in keys : TRUE}), d[CHOOSE a \in keys : TRUE])

\* x and y are equal, or differ by at most cents hundredths
Near(x, y, cents) == FEq(x, y) \/ FWithin(x, y, FMul(Dec(1, -2), FromInt(cents)))

\* the number of subsystems that are not disabled, and whether their accounts differ
NumActive(subs) == Cardinality({i \in 1..Len(subs) : ~subs[i].disabled})
DistinctActiveAccounts(subs) == Cardinality(ActiveAccounts(subs)) = NumActive(subs)

\* C30: whenever calculate_lcoe returns for a list whose active account codes are
\* distinct, capital_contribution is the fuel's regulatory modifier times the sum of the
\* subsystem_capital values, which carry no modifier, and fixed_om_contribution plus
\* variable_om_contribution is the sum of the subsystem_om values, no modifier on either
\* side; each up to the rounding of the values compared, one cent for each of them.
C30_RegulatoryOnAggregateCapitalOnly ==
    (pc = "lcoe" /\ ~breakdown.raised /\ DistinctActiveAccounts(subsystems)) =>
        /\ Near(breakdown.capital_contribution,
                FMul(get_fuel_constraints(fuel_type).regulatory_modifier,
                     SumDict(breakdown.subsystem_capital,
                             DOMAIN breakdown.subsystem_capital)),
                NumActive(subsystems) + 1)
        /\ Near(FAdd(breakdown.fixed_om_contribution, breakdown.variable_om_contribution),
                SumDict(breakdown.subsystem_om, DOMAIN breakdown.subsystem_om),
                NumActive(subsystems) + 2)

C30_Witness ==
    /\ pc = "lcoe" /\ ~breakdown.raised /\ DistinctActiveAccounts(subsystems)
    /\ ValidParams(financial_params)
    /\ fuel_type = "D-T" /\ NumActive(subsystems) = 2
    /\ FGt(breakdown.capital_contribution,
           FAdd(SumDict(breakdown.subsystem_capital, DOMAIN breakdown.subsystem_capital),
                FromInt(1)))
    /\ FGt(breakdown.fixed_om_contribution, Zero)

=============================================================================
